---- MODULE Spec2Model ----
(***************************************************************************)
(* protoc-gen-mbt: the MoonBit protobuf code generator (main.go) and the   *)
(* behaviour of the size / read / write procedures it generates, run       *)
(* against the wire primitives of the runtime library.                     *)
(*                                                                         *)
(* Identifiers (field, type and variant names) are sequences of one        *)
(* character strings so that the case conversions of the generator are     *)
(* computed and not assumed.  Byte buffers are sequences of 0..255.        *)
(***************************************************************************)
EXTENDS Integers, Sequences, FiniteSets, TLC

(***************************************************************************)
(* Bounds                                                                  *)
(***************************************************************************)
\* largest number of wire records in a hand-made input buffer
MaxRecs == 2
\* largest number of elements of a repeated field value
MaxElems == 2
\* largest number of entries of a map field value
MaxEntries == 2
MaxFiles == 2
MaxRuns == 2

(***************************************************************************)
(* Wire primitives library (lib/reader.mbt, writer.mbt, sizeof.mbt)        *)
(***************************************************************************)
VarintType == 0
Fixed64Type == 1
BytesType == 2
StartGroupType == 3
Fixed32Type == 5

RECURSIVE encode_varint(_)
\* base-128 little-endian groups of a non-negative number
encode_varint(n) ==
  IF n < 128 THEN <<n>>
  ELSE <<(n % 128) + 128>> \o encode_varint(n \div 128)

RECURSIVE NegGroups(_, _)
\* the k low 7-bit groups of the two's complement of n, then bit 63
NegGroups(n, k) ==
  IF k = 0 THEN <<1>>
  ELSE <<(n % 128) + 128>> \o NegGroups(n \div 128, k - 1)

\* a signed 32/64-bit integer is sign-extended to 64 bits: ten bytes when < 0
encode_int64(n) == IF n >= 0 THEN encode_varint(n) ELSE NegGroups(n, 9)

size_of_varint(n) == Len(encode_int64(n))

zigzag_encode(n) == IF n >= 0 THEN 2 * n ELSE (-2 * n) - 1

zigzag_decode(u) == IF u % 2 = 0 THEN u \div 2 ELSE -((u + 1) \div 2)

RECURSIVE LittleEndian(_, _)
\* k raw little-endian bytes of n (two's complement when n < 0)
LittleEndian(n, k) ==
  IF k = 0 THEN <<>>
  ELSE <<n % 256>> \o LittleEndian(n \div 256, k - 1)

encode_fixed32(n) == LittleEndian(n, 4)
encode_fixed64(n) == LittleEndian(n, 8)

\* length-delimited: varint(len) ++ payload
encode_bytes(payload) == encode_varint(Len(payload)) \o payload

\* tag(field_number, wire_type) = (field_number << 3) | wire_type
EncodeTag(number, wire) == number * 8 + wire

SizeVarint(n) == Len(encode_varint(n))

SizeTag(number) == SizeVarint(EncodeTag(number, 0))

SizeFixed32 == 4
SizeFixed64 == 8

(* ---- reader side: a result is [ok, v, pos]; pos is the next byte ---- *)
Fail(pos) == [ok |-> FALSE, v |-> 0, pos |-> pos]
Ok(v, pos) == [ok |-> TRUE, v |-> v, pos |-> pos]

is_eof(buf, pos) == pos > Len(buf)

RECURSIVE VarintGroups(_, _, _)
\* the 7-bit groups of the varint at pos; <<>> when malformed or truncated
VarintGroups(buf, pos, k) ==
  IF pos > Len(buf) \/ k > 10 THEN <<-1>>
  ELSE IF buf[pos] < 128 THEN <<buf[pos]>>
  ELSE <<buf[pos] - 128>> \o VarintGroups(buf, pos + 1, k + 1)

RECURSIVE Horner(_, _, _)
Horner(gs, i, off) ==
  IF i = 0 THEN 0 ELSE (gs[i] - off) + 128 * Horner(gs, i - 1, off)

Reverse(s) == [i \in 1..Len(s) |-> s[Len(s) + 1 - i]]

\* the value of the groups as a 64-bit two's complement number
GroupsValue(gs) ==
  IF Len(gs) = 10 /\ gs[10] % 2 = 1
  THEN Horner(Reverse(SubSeq(gs, 1, 9)), 9, 127) - 1
  ELSE Horner(Reverse(gs), Len(gs), 0)

read_varint(buf, pos) ==
  LET gs == VarintGroups(buf, pos, 1) IN
  IF gs[Len(gs)] = -1 THEN Fail(pos)
  ELSE Ok(GroupsValue(gs), pos + Len(gs))

RECURSIVE FromLittleEndian(_, _, _, _)
FromLittleEndian(buf, pos, k, off) ==
  IF k = 0 THEN 0
  ELSE (buf[pos] - off) + 256 * FromLittleEndian(buf, pos + 1, k - 1, off)

\* k raw little-endian bytes as a number.  A 32-bit pattern with the top
\* bit set is kept as its two's complement reading also when the type is
\* unsigned: the pattern, not its magnitude, is what the procedures carry.
read_fixed(buf, pos, k, signed) ==
  IF pos + k - 1 > Len(buf) THEN Fail(pos)
  ELSE IF (signed \/ k = 4) /\ buf[pos + k - 1] >= 128
       THEN Ok(FromLittleEndian(buf, pos, k, 255) - 1, pos + k)
       ELSE Ok(FromLittleEndian(buf, pos, k, 0), pos + k)

\* k bytes skipped without being interpreted
skip_bytes(buf, pos, k) ==
  IF pos + k - 1 > Len(buf) THEN Fail(pos) ELSE Ok(0, pos + k)

\* consume a varint length, then exactly that many bytes
read_bytes(buf, pos) ==
  LET l == read_varint(buf, pos) IN
  IF ~l.ok THEN Fail(pos)
  ELSE IF l.v < 0 \/ l.pos + l.v - 1 > Len(buf) THEN Fail(pos)
  ELSE Ok(SubSeq(buf, l.pos, l.pos + l.v - 1), l.pos + l.v)

\* the tag as (field number, wire type)
read_tag(buf, pos) ==
  LET t == read_varint(buf, pos) IN
  IF ~t.ok THEN Fail(pos)
  ELSE Ok(<<t.v \div 8, t.v % 8>>, t.pos)

\* skip one value of the wire type found in the tag
read_unknown(buf, pos, wire) ==
  CASE wire = VarintType -> read_varint(buf, pos)
    [] wire = Fixed64Type -> skip_bytes(buf, pos, 8)
    [] wire = BytesType -> read_bytes(buf, pos)
    [] wire = Fixed32Type -> skip_bytes(buf, pos, 4)
    [] OTHER -> Fail(pos)

(***************************************************************************)
(* Identifiers and the generator's case conversions                        *)
(***************************************************************************)
LowerLetters ==
  <<"a","b","c","d","e","f","g","h","i","j","k","l","m",
    "n","o","p","q","r","s","t","u","v","w","x","y","z">>
UpperLetters ==
  <<"A","B","C","D","E","F","G","H","I","J","K","L","M",
    "N","O","P","Q","R","S","T","U","V","W","X","Y","Z">>

IsLower(c) == \E i \in 1..26 : LowerLetters[i] = c
IsUpper(c) == \E i \in 1..26 : UpperLetters[i] = c
ToLower(c) ==
  IF IsUpper(c) THEN LowerLetters[CHOOSE i \in 1..26 : UpperLetters[i] = c]
  ELSE c
ToUpper(c) ==
  IF IsLower(c) THEN UpperLetters[CHOOSE i \in 1..26 : LowerLetters[i] = c]
  ELSE c

RECURSIVE InsertUnderscores(_)
\* regexp "([a-z])([A-Z])" replaced by "${1}_${2}"
InsertUnderscores(s) ==
  IF Len(s) < 2 THEN s
  ELSE IF IsLower(s[1]) /\ IsUpper(s[2])
       THEN <<s[1], "_">> \o InsertUnderscores(Tail(s))
       ELSE <<s[1]>> \o InsertUnderscores(Tail(s))

PascalToSnake(s) ==
  LET snake == InsertUnderscores(s) IN
  [i \in 1..Len(snake) |-> ToLower(snake[i])]

\* cases.Title(language.English): first letter upper case, the rest lower
Title(s) ==
  [i \in 1..Len(s) |-> IF i = 1 THEN ToUpper(s[i]) ELSE ToLower(s[i])]

(***************************************************************************)
(* Descriptor model: the input of the generator (protogen.File, Message,   *)
(* Field, Oneof, Enum).  A field names its message or enum by identity.    *)
(***************************************************************************)
NoOneof == 0

Field(json, go, number, kind, card, packed, oneof, ref) ==
  [JSONName |-> json, GoName |-> go, Number |-> number, Kind |-> kind,
   Cardinality |-> card, IsPacked |-> packed, Oneof |-> oneof,
   IsMap |-> FALSE, Message |-> IF kind = "message" THEN ref ELSE "",
   Enum |-> IF kind = "enum" THEN ref ELSE ""]

MapField(json, go, number, entry) ==
  [JSONName |-> json, GoName |-> go, Number |-> number, Kind |-> "message",
   Cardinality |-> "repeated", IsPacked |-> FALSE, Oneof |-> NoOneof,
   IsMap |-> TRUE, Message |-> entry, Enum |-> ""]

IsList(field) == field.Cardinality = "repeated" /\ ~field.IsMap

EnumDescs ==
  [FooEnum |->
     [GoName |-> <<"F","o","o">>,
      Values |-> << [GoName |-> <<"F","o","o","_","A">>, Number |-> 0],
                    [GoName |-> <<"F","o","o","_","B">>, Number |-> 1] >>],
   \* a proto2 enum whose first declared value is not its smallest number
   BazEnum |->
     [GoName |-> <<"B","a","z">>,
      Values |-> << [GoName |-> <<"B","a","z","_","X">>, Number |-> 2],
                    [GoName |-> <<"B","a","z","_","Y">>, Number |-> 1] >>],
   \* an enum with allow_alias: two names of the number 1
   AliasEnum |->
     [GoName |-> <<"A","l">>,
      Values |-> << [GoName |-> <<"A","l","_","A">>, Number |-> 0],
                    [GoName |-> <<"A","l","_","B">>, Number |-> 1],
                    [GoName |-> <<"A","l","_","C">>, Number |-> 1] >>]]

MessageDescs ==
  [MScalar |->
     [GoName |-> <<"M","S">>, Syntax |-> "proto3",
      Fields |-> << Field(<<"f","A">>, <<"F","A">>, 1, "int32", "optional", FALSE, NoOneof, ""),
                    Field(<<"f","S">>, <<"F","S">>, 2, "sint32", "optional", FALSE, NoOneof, ""),
                    Field(<<"f","T">>, <<"F","T">>, 3, "string", "optional", FALSE, NoOneof, "") >>,
      Oneofs |-> <<>>, Messages |-> <<>>, Enums |-> <<>>],
   MRep |->
     [GoName |-> <<"M","R">>, Syntax |-> "proto3",
      Fields |-> << Field(<<"r","P">>, <<"R","P">>, 1, "int32", "repeated", TRUE, NoOneof, ""),
                    Field(<<"r","T">>, <<"R","T">>, 2, "string", "repeated", FALSE, NoOneof, ""),
                    Field(<<"r","F">>, <<"R","F">>, 3, "fixed32", "repeated", TRUE, NoOneof, "") >>,
      Oneofs |-> <<>>, Messages |-> <<>>, Enums |-> <<>>],
   MP |->
     [GoName |-> <<"M","P">>, Syntax |-> "proto2",
      Fields |-> << Field(<<"r","U">>, <<"R","U">>, 1, "int32", "repeated", FALSE, NoOneof, ""),
                    Field(<<"f","A">>, <<"F","A">>, 2, "int32", "optional", FALSE, NoOneof, ""),
                    Field(<<"f","B">>, <<"F","B">>, 3, "bool", "optional", FALSE, NoOneof, "") >>,
      Oneofs |-> <<>>, Messages |-> <<>>, Enums |-> <<>>],
   MMapEntry |->
     [GoName |-> <<"M","M","_","E">>, Syntax |-> "proto3",
      Fields |-> << Field(<<"k","e","y">>, <<"K","e","y">>, 1, "int32", "optional", FALSE, NoOneof, ""),
                    Field(<<"v","a","l","u","e">>, <<"V","a","l","u","e">>, 2, "int32", "optional", FALSE, NoOneof, "") >>,
      Oneofs |-> <<>>, Messages |-> <<>>, Enums |-> <<>>],
   MMap |->
     [GoName |-> <<"M","M">>, Syntax |-> "proto3",
      Fields |-> << MapField(<<"f","M">>, <<"F","M">>, 1, "MMapEntry"),
                    Field(<<"f","A">>, <<"F","A">>, 2, "uint32", "optional", FALSE, NoOneof, "") >>,
      Oneofs |-> <<>>, Messages |-> <<"MMapEntry">>, Enums |-> <<>>],
   MOne |->
     [GoName |-> <<"M","O">>, Syntax |-> "proto3",
      Fields |-> << Field(<<"f","1">>, <<"F","1">>, 1, "int32", "optional", FALSE, 1, ""),
                    Field(<<"f","2">>, <<"F","2">>, 2, "fixed32", "optional", FALSE, 1, ""),
                    Field(<<"f","T">>, <<"F","T">>, 3, "string", "optional", FALSE, NoOneof, ""),
                    Field(<<"f","O">>, <<"F","O">>, 4, "int32", "optional", FALSE, 2, "") >>,
      Oneofs |-> << [GoName |-> <<"K","i","n","d">>, IsSynthetic |-> FALSE, Fields |-> <<1, 2>>],
                    [GoName |-> <<"X","_","f","O">>, IsSynthetic |-> TRUE, Fields |-> <<4>>] >>,
      Messages |-> <<>>, Enums |-> <<>>],
   Bar |->
     [GoName |-> <<"B","a","r">>, Syntax |-> "proto3",
      Fields |-> << Field(<<"b","A">>, <<"B","A">>, 1, "int32", "optional", FALSE, NoOneof, "") >>,
      Oneofs |-> <<>>, Messages |-> <<>>, Enums |-> <<>>],
   MNest |->
     [GoName |-> <<"M","N">>, Syntax |-> "proto3",
      Fields |-> << Field(<<"f","B">>, <<"F","B">>, 1, "message", "optional", FALSE, NoOneof, "Bar"),
                    Field(<<"f","E">>, <<"F","E">>, 2, "enum", "optional", FALSE, NoOneof, "FooEnum"),
                    Field(<<"f","X">>, <<"F","X">>, 3, "sfixed32", "optional", FALSE, NoOneof, "") >>,
      Oneofs |-> <<>>, Messages |-> <<>>, Enums |-> <<>>],
   MEmpty |->
     [GoName |-> <<"M","E">>, Syntax |-> "proto3",
      Fields |-> <<>>, Oneofs |-> <<>>, Messages |-> <<>>, Enums |-> <<>>],
   Inner |->
     [GoName |-> <<"I","n">>, Syntax |-> "proto3",
      Fields |-> << Field(<<"i","S">>, <<"I","S">>, 1, "sint32", "optional", FALSE, NoOneof, "") >>,
      Oneofs |-> <<>>, Messages |-> <<>>, Enums |-> <<>>],
   Mid |->
     [GoName |-> <<"M","i","d">>, Syntax |-> "proto3",
      Fields |-> << Field(<<"m","I">>, <<"M","I">>, 1, "message", "optional", FALSE, NoOneof, "Inner") >>,
      Oneofs |-> <<>>, Messages |-> <<>>, Enums |-> <<>>],
   MPk |->
     [GoName |-> <<"M","K">>, Syntax |-> "proto3",
      Fields |-> << Field(<<"p","S">>, <<"P","S">>, 1, "sint32", "repeated", TRUE, NoOneof, "") >>,
      Oneofs |-> <<>>, Messages |-> <<>>, Enums |-> <<>>],
   MGrp |->
     [GoName |-> <<"M","G">>, Syntax |-> "proto2",
      Fields |-> << Field(<<"g","F">>, <<"G","F">>, 1, "group", "optional", FALSE, NoOneof, "") >>,
      Oneofs |-> <<>>, Messages |-> <<>>, Enums |-> <<>>],
   MPe |->
     [GoName |-> <<"M","P","e">>, Syntax |-> "proto3",
      Fields |-> << Field(<<"p","E">>, <<"P","E">>, 1, "enum", "repeated", TRUE, NoOneof, "FooEnum") >>,
      Oneofs |-> <<>>, Messages |-> <<>>, Enums |-> <<>>],
   \* a message holding a message without fields
   MHold |->
     [GoName |-> <<"M","H">>, Syntax |-> "proto3",
      Fields |-> << Field(<<"h","E">>, <<"H","E">>, 1, "message", "optional", FALSE, NoOneof, "MEmpty"),
                    Field(<<"h","A">>, <<"H","A">>, 2, "int32", "optional", FALSE, NoOneof, "") >>,
      Oneofs |-> <<>>, Messages |-> <<>>, Enums |-> <<>>],
   \* a map from int32 to string
   MMapTEntry |->
     [GoName |-> <<"M","T","_","E">>, Syntax |-> "proto3",
      Fields |-> << Field(<<"k","e","y">>, <<"K","e","y">>, 1, "int32", "optional", FALSE, NoOneof, ""),
                    Field(<<"v","a","l","u","e">>, <<"V","a","l","u","e">>, 2, "string", "optional", FALSE, NoOneof, "") >>,
      Oneofs |-> <<>>, Messages |-> <<>>, Enums |-> <<>>],
   MMapT |->
     [GoName |-> <<"M","T">>, Syntax |-> "proto3",
      Fields |-> << MapField(<<"f","N">>, <<"F","N">>, 1, "MMapTEntry") >>,
      Oneofs |-> <<>>, Messages |-> <<"MMapTEntry">>, Enums |-> <<>>],
   \* a message with a singular field of its own type
   MSelf |->
     [GoName |-> <<"M","S","f">>, Syntax |-> "proto3",
      Fields |-> << Field(<<"n","e","x","t">>, <<"N","e","x","t">>, 1, "message", "optional", FALSE, NoOneof, "MSelf"),
                    Field(<<"s","V">>, <<"S","V">>, 2, "int32", "optional", FALSE, NoOneof, "") >>,
      Oneofs |-> <<>>, Messages |-> <<>>, Enums |-> <<>>],
   \* two messages with a singular field of each other's type
   MPing |->
     [GoName |-> <<"P","i","n","g">>, Syntax |-> "proto3",
      Fields |-> << Field(<<"p","o","n","g">>, <<"P","o","n","g">>, 1, "message", "optional", FALSE, NoOneof, "MPong") >>,
      Oneofs |-> <<>>, Messages |-> <<>>, Enums |-> <<>>],
   MPong |->
     [GoName |-> <<"P","o","n","g">>, Syntax |-> "proto3",
      Fields |-> << Field(<<"p","i","n","g">>, <<"P","i","n","g">>, 1, "message", "optional", FALSE, NoOneof, "MPing") >>,
      Oneofs |-> <<>>, Messages |-> <<>>, Enums |-> <<>>],
   \* a list: the message reaches itself through a member of its oneof
   MList |->
     [GoName |-> <<"L","s">>, Syntax |-> "proto3",
      Fields |-> << Field(<<"c","o","n","s">>, <<"C","o","n","s">>, 1, "message", "optional", FALSE, 1, "MCons") >>,
      Oneofs |-> << [GoName |-> <<"T">>, IsSynthetic |-> FALSE, Fields |-> <<1>>] >>,
      Messages |-> <<>>, Enums |-> <<>>],
   MCons |->
     [GoName |-> <<"L","s","_","C","o","n","s">>, Syntax |-> "proto3",
      Fields |-> << Field(<<"v","a","l","u","e">>, <<"V","a","l","u","e">>, 1, "int32", "optional", FALSE, NoOneof, ""),
                    Field(<<"n","e","x","t">>, <<"N","e","x","t">>, 2, "message", "optional", FALSE, NoOneof, "MList") >>,
      Oneofs |-> <<>>, Messages |-> <<>>, Enums |-> <<>>],
   MDeep |->
     [GoName |-> <<"M","D">>, Syntax |-> "proto3",
      Fields |-> << Field(<<"d","M">>, <<"D","M">>, 1, "message", "optional", FALSE, NoOneof, "Mid"),
                    Field(<<"d","R">>, <<"D","R">>, 2, "message", "repeated", FALSE, NoOneof, "Inner") >>,
      Oneofs |-> <<>>, Messages |-> <<>>, Enums |-> <<>>]]

FileDescs ==
  [scalar |-> [GeneratedFilenamePrefix |-> "scalar", Generate |-> TRUE, Extensions |-> <<>>, Options |-> <<>>,
               Enums |-> <<>>, Messages |-> <<"MScalar">>],
   rep    |-> [GeneratedFilenamePrefix |-> "rep", Generate |-> TRUE, Extensions |-> <<>>, Options |-> <<>>,
               Enums |-> <<>>, Messages |-> <<"MRep">>],
   p2     |-> [GeneratedFilenamePrefix |-> "p2", Generate |-> TRUE, Extensions |-> <<>>, Options |-> <<>>,
               Enums |-> <<"BazEnum">>, Messages |-> <<"MP">>],
   map    |-> [GeneratedFilenamePrefix |-> "map", Generate |-> TRUE, Extensions |-> <<>>, Options |-> <<>>,
               Enums |-> <<>>, Messages |-> <<"MMap">>],
   oneof  |-> [GeneratedFilenamePrefix |-> "oneof", Generate |-> TRUE, Extensions |-> <<>>, Options |-> <<>>,
               Enums |-> <<>>, Messages |-> <<"MOne">>],
   nest   |-> [GeneratedFilenamePrefix |-> "nest", Generate |-> TRUE, Extensions |-> <<>>, Options |-> <<>>,
               Enums |-> <<"FooEnum">>, Messages |-> <<"Bar", "MNest">>],
   empty  |-> [GeneratedFilenamePrefix |-> "empty", Generate |-> TRUE, Extensions |-> <<>>, Options |-> <<>>,
               Enums |-> <<>>, Messages |-> <<"MEmpty">>],
   deep   |-> [GeneratedFilenamePrefix |-> "deep", Generate |-> TRUE, Extensions |-> <<>>, Options |-> <<>>,
               Enums |-> <<>>, Messages |-> <<"Inner", "Mid", "MDeep">>],
   pk     |-> [GeneratedFilenamePrefix |-> "pk", Generate |-> TRUE, Extensions |-> <<>>, Options |-> <<>>,
               Enums |-> <<>>, Messages |-> <<"MPk">>],
   \* a message with a packed repeated enum field
   pe     |-> [GeneratedFilenamePrefix |-> "pe", Generate |-> TRUE, Extensions |-> <<>>, Options |-> <<>>,
               Enums |-> <<>>, Messages |-> <<"MPe">>],
   \* a message with a group field; a file declaring an extension field; a
   \* file carrying a custom option (full names as the descriptors give them)
   grp    |-> [GeneratedFilenamePrefix |-> "grp", Generate |-> TRUE, Extensions |-> <<>>, Options |-> <<>>,
               Enums |-> <<>>, Messages |-> <<"MGrp">>],
   ext    |-> [GeneratedFilenamePrefix |-> "ext", Generate |-> TRUE,
               Extensions |-> <<"ext.x_e">>, Options |-> <<>>,
               Enums |-> <<>>, Messages |-> <<>>],
   opt    |-> [GeneratedFilenamePrefix |-> "opt", Generate |-> TRUE,
               Extensions |-> <<>>, Options |-> <<"opt.my_option">>,
               Enums |-> <<>>, Messages |-> <<>>],
   alias  |-> [GeneratedFilenamePrefix |-> "alias", Generate |-> TRUE, Extensions |-> <<>>, Options |-> <<>>,
               Enums |-> <<"AliasEnum">>, Messages |-> <<>>],
   hold   |-> [GeneratedFilenamePrefix |-> "hold", Generate |-> TRUE, Extensions |-> <<>>, Options |-> <<>>,
               Enums |-> <<>>, Messages |-> <<"MEmpty", "MHold">>],
   mapt   |-> [GeneratedFilenamePrefix |-> "mapt", Generate |-> TRUE, Extensions |-> <<>>, Options |-> <<>>,
               Enums |-> <<>>, Messages |-> <<"MMapT">>],
   \* recursive messages
   self   |-> [GeneratedFilenamePrefix |-> "self", Generate |-> TRUE, Extensions |-> <<>>, Options |-> <<>>,
               Enums |-> <<>>, Messages |-> <<"MSelf">>],
   mutual |-> [GeneratedFilenamePrefix |-> "mutual", Generate |-> TRUE, Extensions |-> <<>>, Options |-> <<>>,
               Enums |-> <<>>, Messages |-> <<"MPing", "MPong">>],
   list   |-> [GeneratedFilenamePrefix |-> "list", Generate |-> TRUE, Extensions |-> <<>>, Options |-> <<>>,
               Enums |-> <<>>, Messages |-> <<"MList", "MCons">>],
   \* a file of the request that is only imported
   dep    |-> [GeneratedFilenamePrefix |-> "dep", Generate |-> FALSE,
               Extensions |-> <<>>, Options |-> <<>>,
               Enums |-> <<>>, Messages |-> <<"Bar">>]]

\* the files of one generator request, in request order
Requests ==
  { <<"scalar">>, <<"rep">>, <<"p2">>, <<"map">>, <<"oneof">>, <<"nest">>,
    <<"empty">>, <<"deep">>, <<"pk">>, <<"grp">>, <<"ext">>, <<"opt">>,
    <<"pe">>, <<"self">>, <<"mutual">>, <<"list">>,
    <<"mapt">>, <<"hold">>, <<"alias">> }

(***************************************************************************)
(* The generator (main.go, second revision).  Generated source text is     *)
(* kept as structured lines: one record per emitted line or expression.    *)
(***************************************************************************)
Ty(c, name, args) == [c |-> c, name |-> name, args |-> args]

Varint32Kinds == {"bool", "enum", "int32", "int64", "sint32", "sint64", "uint32", "uint64"}
Fixed32Kinds == {"fixed32", "sfixed32", "float"}
Fixed64Kinds == {"fixed64", "sfixed64", "double"}
LenKinds == {"string", "bytes", "message"}

oneOfEnumName(m, oneof) == m.GoName \o <<"_">> \o Title(oneof.GoName)

\* a mapping that gives the signed fixed kinds the unsigned types
getMbtType_SfixedUnsigned(field) ==
  CASE field.Kind = "bool" -> Ty("Bool", <<>>, <<>>)
    [] field.Kind \in {"int32", "sint32"} -> Ty("Int", <<>>, <<>>)
    [] field.Kind \in {"int64", "sint64"} -> Ty("Int64", <<>>, <<>>)
    [] field.Kind \in {"fixed32", "uint32", "sfixed32"} -> Ty("UInt", <<>>, <<>>)
    [] field.Kind \in {"fixed64", "uint64", "sfixed64"} -> Ty("UInt64", <<>>, <<>>)
    [] field.Kind = "float" -> Ty("Float", <<>>, <<>>)
    [] field.Kind = "double" -> Ty("Double", <<>>, <<>>)
    [] field.Kind = "string" -> Ty("String", <<>>, <<>>)
    [] field.Kind = "bytes" -> Ty("Bytes", <<>>, <<>>)
    [] field.Kind = "message" -> Ty("Named", MessageDescs[field.Message].GoName, <<>>)
    [] field.Kind = "enum" -> Ty("Named", EnumDescs[field.Enum].GoName, <<>>)
    [] OTHER -> Ty("panic", <<>>, <<>>)

getMbtType(field) ==
  CASE field.Kind = "bool" -> Ty("Bool", <<>>, <<>>)
    [] field.Kind \in {"int32", "sfixed32", "sint32"} -> Ty("Int", <<>>, <<>>)
    [] field.Kind \in {"int64", "sfixed64", "sint64"} -> Ty("Int64", <<>>, <<>>)
    [] field.Kind \in {"fixed32", "uint32"} -> Ty("UInt", <<>>, <<>>)
    [] field.Kind \in {"fixed64", "uint64"} -> Ty("UInt64", <<>>, <<>>)
    [] field.Kind = "float" -> Ty("Float", <<>>, <<>>)
    [] field.Kind = "double" -> Ty("Double", <<>>, <<>>)
    [] field.Kind = "string" -> Ty("String", <<>>, <<>>)
    [] field.Kind = "bytes" -> Ty("Bytes", <<>>, <<>>)
    [] field.Kind = "message" -> Ty("Named", MessageDescs[field.Message].GoName, <<>>)
    [] field.Kind = "enum" -> Ty("Named", EnumDescs[field.Enum].GoName, <<>>)
    [] OTHER -> Ty("panic", <<>>, <<>>)

getFieldMbtType(field) ==
  IF field.IsMap
  THEN Ty("Map", <<>>, << getMbtType(MessageDescs[field.Message].Fields[1]),
                          getMbtType(MessageDescs[field.Message].Fields[2]) >>)
  ELSE IF field.Cardinality = "repeated"
       THEN Ty("Array", <<>>, << getMbtType(field) >>)
       ELSE getMbtType(field)

InRealOneof(m, field) ==
  field.Oneof # NoOneof /\ ~m.Oneofs[field.Oneof].IsSynthetic
InSyntheticOneof(m, field) ==
  field.Oneof # NoOneof /\ m.Oneofs[field.Oneof].IsSynthetic

\* the struct definition: one line "mut name : type" per member
\* a struct that also has a member for every member field of a oneof
genStruct_AllFields(m) ==
  LET oneofs == SelectSeq(m.Oneofs, LAMBDA o : ~o.IsSynthetic)
  IN [i \in 1..Len(m.Fields) |->
        [name |-> PascalToSnake(m.Fields[i].JSONName),
         type |-> IF InSyntheticOneof(m, m.Fields[i])
                  THEN Ty("Option", <<>>, << getFieldMbtType(m.Fields[i]) >>)
                  ELSE getFieldMbtType(m.Fields[i])]]
     \o
     [i \in 1..Len(oneofs) |->
        [name |-> PascalToSnake(oneofs[i].GoName),
         type |-> Ty("Named", oneOfEnumName(m, oneofs[i]), <<>>)]]

genStruct(m) ==
  LET regular == SelectSeq(m.Fields, LAMBDA f : ~InRealOneof(m, f))
      oneofs == SelectSeq(m.Oneofs, LAMBDA o : ~o.IsSynthetic)
  IN [i \in 1..Len(regular) |->
        [name |-> PascalToSnake(regular[i].JSONName),
         type |-> IF InSyntheticOneof(m, regular[i])
                  THEN Ty("Option", <<>>, << getFieldMbtType(regular[i]) >>)
                  ELSE getFieldMbtType(regular[i])]]
     \o
     [i \in 1..Len(oneofs) |->
        [name |-> PascalToSnake(oneofs[i].GoName),
         type |-> Ty("Named", oneOfEnumName(m, oneofs[i]), <<>>)]]

\* a union whose default() is its first member, holding no value
genOneofEnum_DefaultFirst(m, oneof) ==
  [name |-> oneOfEnumName(m, oneof),
   variants |-> [i \in 1..Len(oneof.Fields) |->
                   [ctor |-> m.Fields[oneof.Fields[i]].GoName,
                    type |-> getFieldMbtType(m.Fields[oneof.Fields[i]])]]
                \o << [ctor |-> <<"N","o","t","S","e","t">>] >>,
   default |-> m.Fields[oneof.Fields[1]].GoName]

genOneofEnum(m, oneof) ==
  [name |-> oneOfEnumName(m, oneof),
   variants |-> [i \in 1..Len(oneof.Fields) |->
                   [ctor |-> m.Fields[oneof.Fields[i]].GoName,
                    type |-> getFieldMbtType(m.Fields[oneof.Fields[i]])]]
                \o << [ctor |-> <<"N","o","t","S","e","t">>] >>,
   default |-> <<"N","o","t","S","e","t">>]

\* an enum whose default() is its last declared value
genEnum_DefaultLast(enum) ==
  [name |-> enum.GoName,
   variants |-> [i \in 1..Len(enum.Values) |-> enum.Values[i].GoName],
   to_enum |-> [i \in 1..Len(enum.Values) |->
                  [ctor |-> enum.Values[i].GoName, number |-> enum.Values[i].Number]],
   from_enum |-> [i \in 1..Len(enum.Values) |->
                    [number |-> enum.Values[i].Number, ctor |-> enum.Values[i].GoName]],
   default |-> enum.Values[Len(enum.Values)].GoName]

genEnum(enum) ==
  [name |-> enum.GoName,
   variants |-> [i \in 1..Len(enum.Values) |-> enum.Values[i].GoName],
   to_enum |-> [i \in 1..Len(enum.Values) |->
                  [ctor |-> enum.Values[i].GoName, number |-> enum.Values[i].Number]],
   from_enum |-> [i \in 1..Len(enum.Values) |->
                    [number |-> enum.Values[i].Number, ctor |-> enum.Values[i].GoName]],
   default |-> enum.Values[1].GoName]

(* ---- genMessageSize ---- *)
\* the size of one key / value / singular / oneof payload named by var
sizeTerm(kind, tagSize, var) ==
  CASE kind \in LenKinds -> [form |-> "len", tagSize |-> tagSize, var |-> var]
    [] kind \in Fixed32Kinds -> [form |-> "const", tagSize |-> tagSize, width |-> SizeFixed32]
    [] kind \in Fixed64Kinds -> [form |-> "const", tagSize |-> tagSize, width |-> SizeFixed64]
    [] OTHER -> [form |-> "sized", tagSize |-> tagSize, var |-> var]

genFieldSize(m, field) ==
  LET fieldName == PascalToSnake(field.JSONName)
      tagSize == SizeTag(field.Number)
  IN
  IF field.IsPacked THEN
    CASE field.Kind \in Fixed32Kinds ->
           [op |-> "size_packed_fixed", tagSize |-> tagSize, field |-> fieldName, width |-> SizeFixed32]
      [] field.Kind \in Fixed64Kinds ->
           [op |-> "size_packed_fixed", tagSize |-> tagSize, field |-> fieldName, width |-> SizeFixed64]
      [] field.Kind \in Varint32Kinds ->
           [op |-> "size_packed_varint", tagSize |-> tagSize, field |-> fieldName]
      [] OTHER -> [op |-> "panic"]
  ELSE IF IsList(field) THEN
    [op |-> "size_list", tagSize |-> tagSize, field |-> fieldName]
  ELSE IF field.IsMap THEN
    [op |-> "size_map", tagSize |-> tagSize, field |-> fieldName,
     key |-> sizeTerm(MessageDescs[field.Message].Fields[1].Kind, SizeTag(0), "k"),
     value |-> sizeTerm(MessageDescs[field.Message].Fields[2].Kind, SizeTag(1),
                        IF MessageDescs[field.Message].Fields[2].Kind \in LenKinds
                        THEN "value" ELSE "v")]
  ELSE
    [op |-> "size_single", field |-> fieldName,
     term |-> sizeTerm(field.Kind, tagSize, "self")]

genOneofSize(m, oneof) ==
  [op |-> "size_match",
   field |-> IF oneof.IsSynthetic
             THEN PascalToSnake(m.Fields[oneof.Fields[1]].JSONName)
             ELSE PascalToSnake(oneof.GoName),
   arms |-> [i \in 1..Len(oneof.Fields) |->
               [ctor |-> IF oneof.IsSynthetic THEN <<"S","o","m","e">>
                         ELSE m.Fields[oneof.Fields[i]].GoName,
                term |-> sizeTerm(m.Fields[oneof.Fields[i]].Kind,
                                  SizeTag(m.Fields[oneof.Fields[i]].Number), "v")]],
   rest |-> IF oneof.IsSynthetic THEN <<"N","o","n","e">> ELSE <<"N","o","t","S","e","t">>]

genMessageSize(m) ==
  IF Len(m.Fields) = 0 THEN [empty |-> TRUE, lines |-> <<>>]
  ELSE
    LET regular == SelectSeq(m.Fields, LAMBDA f : f.Oneof = NoOneof) IN
    [empty |-> FALSE,
     lines |-> [i \in 1..Len(regular) |-> genFieldSize(m, regular[i])]
               \o [i \in 1..Len(m.Oneofs) |-> genOneofSize(m, m.Oneofs[i])]]

(* ---- genMessageRead ---- *)
\* a tag that carries the kind's own wire type for a packed field too
tag_IgnorePacked(kind, number, isPacked) ==
  CASE kind \in Varint32Kinds -> EncodeTag(number, VarintType)
    [] kind \in Fixed32Kinds -> EncodeTag(number, Fixed32Type)
    [] kind \in Fixed64Kinds -> EncodeTag(number, Fixed64Type)
    [] kind \in LenKinds -> EncodeTag(number, BytesType)
    [] OTHER -> -1

tag(kind, number, isPacked) ==
  IF isPacked THEN EncodeTag(number, BytesType)
  ELSE CASE kind \in Varint32Kinds -> EncodeTag(number, VarintType)
         [] kind \in Fixed32Kinds -> EncodeTag(number, Fixed32Type)
         [] kind \in Fixed64Kinds -> EncodeTag(number, Fixed64Type)
         [] kind \in LenKinds -> EncodeTag(number, BytesType)
         [] OTHER -> -1

kindReadFunc(kind) ==
  CASE kind = "bool" -> "read_bool"
    [] kind = "int32" -> "read_int32"
    [] kind = "int64" -> "read_int64"
    [] kind = "sint32" -> "read_sint32"
    [] kind = "sint64" -> "read_sint64"
    [] kind = "uint32" -> "read_uint32"
    [] kind = "uint64" -> "read_uint64"
    [] kind = "fixed32" -> "read_fixed32"
    [] kind = "fixed64" -> "read_fixed64"
    [] kind = "sfixed32" -> "read_sfixed32"
    [] kind = "sfixed64" -> "read_sfixed64"
    [] kind = "float" -> "read_float"
    [] kind = "double" -> "read_double"
    [] kind = "string" -> "read_string"
    [] kind = "bytes" -> "read_bytes"
    [] kind = "enum" -> "read_enum"
    [] kind = "message" -> "Read::read"
    [] kind = "group" -> "panic()"
    [] OTHER -> "unreachable"

\* the expression that reads one value of the kind
genKindRead(kind, typeName) ==
  CASE kind \in {"bool", "int32", "int64", "uint32", "uint64", "fixed32",
                 "fixed64", "sfixed32", "sfixed64", "float", "double",
                 "string", "bytes"} ->
         [fn |-> kindReadFunc(kind), unwrap |-> FALSE, type |-> <<>>]
    [] kind \in {"sint32", "sint64"} ->
         [fn |-> kindReadFunc(kind), unwrap |-> TRUE, type |-> <<>>]
    [] kind = "enum" -> [fn |-> "from_enum", unwrap |-> FALSE, type |-> typeName]
    [] kind = "message" -> [fn |-> "read_message", unwrap |-> FALSE, type |-> typeName]
    [] kind = "group" -> [fn |-> "panic()", unwrap |-> FALSE, type |-> <<>>]
    [] OTHER -> [fn |-> "unreachable", unwrap |-> FALSE, type |-> <<>>]

\* the type name handed to genKindRead: the enum's, else the message's
readTypeName(field) ==
  IF field.Message # "" THEN MessageDescs[field.Message].GoName
  ELSE IF field.Enum # "" THEN EnumDescs[field.Enum].GoName
  ELSE <<>>

genFieldRead(field, m) ==
  [op |-> "assign", number |-> field.Number,
   field |-> IF InRealOneof(m, field)
             THEN PascalToSnake(m.Oneofs[field.Oneof].GoName)
             ELSE PascalToSnake(field.JSONName),
   read |-> genKindRead(field.Kind, readTypeName(field)),
   oneOfConstructor |-> IF InRealOneof(m, field) THEN field.GoName ELSE <<>>,
   optionalConstructor |-> InSyntheticOneof(m, field)]

genRepeatedFieldRead(field) ==
  LET fieldName == PascalToSnake(field.JSONName) IN
  IF field.IsPacked THEN
    CASE field.Kind \in {"bool", "int32", "int64", "uint32", "uint64", "sint32", "sint64"} ->
           [op |-> "push_packed", number |-> field.Number, field |-> fieldName,
            fn |-> kindReadFunc(field.Kind), width |-> 0]
      [] field.Kind \in Fixed64Kinds ->
           [op |-> "push_packed", number |-> field.Number, field |-> fieldName,
            fn |-> kindReadFunc(field.Kind), width |-> 64]
      [] field.Kind \in Fixed32Kinds ->
           [op |-> "push_packed", number |-> field.Number, field |-> fieldName,
            fn |-> kindReadFunc(field.Kind), width |-> 32]
      [] OTHER -> [op |-> "panic"]
  ELSE IF field.IsMap THEN
    [op |-> "map_set", number |-> field.Number, field |-> fieldName,
     read |-> genKindRead(field.Kind, readTypeName(field))]
  ELSE
    [op |-> "push", number |-> field.Number, field |-> fieldName,
     read |-> genKindRead(field.Kind, readTypeName(field))]

\* a read whose fallback arm skips one varint whatever the wire type is
genMessageRead_SkipVarint(m) ==
  IF Len(m.Fields) = 0 THEN [empty |-> TRUE, arms |-> <<>>, rest |-> "none"]
  ELSE [empty |-> FALSE,
        arms |-> [i \in 1..Len(m.Fields) |->
                    IF m.Fields[i].Cardinality = "repeated"
                    THEN genRepeatedFieldRead(m.Fields[i])
                    ELSE genFieldRead(m.Fields[i], m)],
        rest |-> "read_varint"]

genMessageRead(m) ==
  IF Len(m.Fields) = 0 THEN [empty |-> TRUE, arms |-> <<>>, rest |-> "none"]
  ELSE [empty |-> FALSE,
        arms |-> [i \in 1..Len(m.Fields) |->
                    IF m.Fields[i].Cardinality = "repeated"
                    THEN genRepeatedFieldRead(m.Fields[i])
                    ELSE genFieldRead(m.Fields[i], m)],
        rest |-> "read_unknown"]

(* ---- genMessageWrite ---- *)
genFieldWrite(kind, variable) ==
  CASE kind = "string" -> [fn |-> "write_string", var |-> variable]
    [] kind = "bytes" -> [fn |-> "write_bytes", var |-> variable]
    [] kind = "message" -> [fn |-> "write_message", var |-> variable]
    [] kind = "fixed32" -> [fn |-> "write_fixed32", var |-> variable]
    [] kind = "sfixed32" -> [fn |-> "write_sfixed32", var |-> variable]
    [] kind = "float" -> [fn |-> "write_float", var |-> variable]
    [] kind = "fixed64" -> [fn |-> "write_fixed64", var |-> variable]
    [] kind = "sfixed64" -> [fn |-> "write_sfixed64", var |-> variable]
    [] kind = "double" -> [fn |-> "write_double", var |-> variable]
    [] kind = "bool" -> [fn |-> "write_bool", var |-> variable]
    [] kind = "int32" -> [fn |-> "write_int32", var |-> variable]
    [] kind = "int64" -> [fn |-> "write_int64", var |-> variable]
    [] kind = "sint32" -> [fn |-> "write_sint32", var |-> variable]
    [] kind = "sint64" -> [fn |-> "write_sint64", var |-> variable]
    [] kind = "uint32" -> [fn |-> "write_uint32", var |-> variable]
    [] kind = "uint64" -> [fn |-> "write_uint64", var |-> variable]
    [] kind = "enum" -> [fn |-> "write_enum", var |-> variable]
    [] OTHER -> [fn |-> "panic", var |-> variable]

genFieldWriteStmt(m, field) ==
  LET fieldName == PascalToSnake(field.JSONName) IN
  IF field.IsPacked THEN
    CASE field.Kind \in Fixed32Kinds ->
           [op |-> "write_packed", tag |-> tag(field.Kind, field.Number, TRUE),
            field |-> fieldName, width |-> SizeFixed32,
            elem |-> genFieldWrite(field.Kind, "v")]
      [] field.Kind \in Fixed64Kinds ->
           [op |-> "write_packed", tag |-> tag(field.Kind, field.Number, TRUE),
            field |-> fieldName, width |-> SizeFixed64,
            elem |-> genFieldWrite(field.Kind, "v")]
      [] field.Kind \in Varint32Kinds ->
           [op |-> "write_packed", tag |-> tag(field.Kind, field.Number, TRUE),
            field |-> fieldName, width |-> 0,
            elem |-> genFieldWrite(field.Kind, "v")]
      [] OTHER -> [op |-> "panic"]
  ELSE IF IsList(field) THEN
    [op |-> "write_list", tag |-> tag(field.Kind, field.Number, FALSE),
     field |-> fieldName, elem |-> genFieldWrite(field.Kind, "v")]
  ELSE IF field.IsMap THEN
    LET mapKey == MessageDescs[field.Message].Fields[1]
        mapValue == MessageDescs[field.Message].Fields[2]
    IN [op |-> "write_map", tag |-> tag(field.Kind, field.Number, FALSE),
        field |-> fieldName,
        key |-> sizeTerm(mapKey.Kind, SizeTag(0), "k"),
        value |-> sizeTerm(mapValue.Kind, SizeTag(1),
                           IF mapValue.Kind \in LenKinds THEN "value" ELSE "v"),
        \* size_of(key_size + value_size) + key_size + value_size
        entryLen |-> "prefix_and_payload",
        keyTag |-> tag(mapKey.Kind, mapKey.Number, FALSE),
        keyWrite |-> genFieldWrite(mapKey.Kind, "k"),
        valueTag |-> tag(mapValue.Kind, mapValue.Number, FALSE),
        valueWrite |-> genFieldWrite(mapValue.Kind, "v")]
  ELSE
    [op |-> "write_single", tag |-> tag(field.Kind, field.Number, FALSE),
     field |-> fieldName, elem |-> genFieldWrite(field.Kind, "self")]

\* a write whose arms all carry the tag of the first member of the oneof
genOneofWrite_FirstMemberTag(m, oneof) ==
  [op |-> "write_match",
   field |-> IF oneof.IsSynthetic
             THEN PascalToSnake(m.Fields[oneof.Fields[1]].JSONName)
             ELSE PascalToSnake(oneof.GoName),
   arms |-> [i \in 1..Len(oneof.Fields) |->
               [ctor |-> IF oneof.IsSynthetic THEN <<"S","o","m","e">>
                         ELSE m.Fields[oneof.Fields[i]].GoName,
                tag |-> tag(m.Fields[oneof.Fields[1]].Kind,
                            m.Fields[oneof.Fields[1]].Number, FALSE),
                elem |-> genFieldWrite(m.Fields[oneof.Fields[i]].Kind, "v")]],
   rest |-> IF oneof.IsSynthetic THEN <<"N","o","n","e">> ELSE <<"N","o","t","S","e","t">>]

genOneofWrite(m, oneof) ==
  [op |-> "write_match",
   field |-> IF oneof.IsSynthetic
             THEN PascalToSnake(m.Fields[oneof.Fields[1]].JSONName)
             ELSE PascalToSnake(oneof.GoName),
   arms |-> [i \in 1..Len(oneof.Fields) |->
               [ctor |-> IF oneof.IsSynthetic THEN <<"S","o","m","e">>
                         ELSE m.Fields[oneof.Fields[i]].GoName,
                tag |-> tag(m.Fields[oneof.Fields[i]].Kind,
                            m.Fields[oneof.Fields[i]].Number, FALSE),
                elem |-> genFieldWrite(m.Fields[oneof.Fields[i]].Kind, "v")]],
   rest |-> IF oneof.IsSynthetic THEN <<"N","o","n","e">> ELSE <<"N","o","t","S","e","t">>]

genMessageWrite(m) ==
  LET regular == SelectSeq(m.Fields, LAMBDA f : f.Oneof = NoOneof) IN
  [lines |-> [i \in 1..Len(regular) |-> genFieldWriteStmt(m, regular[i])]
             \o [i \in 1..Len(m.Oneofs) |-> genOneofWrite(m, m.Oneofs[i])]]

(* ---- genMessage, genMessages, genFile, main ---- *)
genMessage(m) ==
  LET oneofs == SelectSeq(m.Oneofs, LAMBDA o : ~o.IsSynthetic) IN
  [name |-> m.GoName,
   struct |-> genStruct(m),
   size |-> genMessageSize(m),
   read |-> genMessageRead(m),
   write |-> genMessageWrite(m),
   \* deferred calls run last-in first-out after the procedures
   oneofEnums |-> [i \in 1..Len(oneofs) |->
                     genOneofEnum(m, oneofs[Len(oneofs) + 1 - i])]]

RECURSIVE genMessages(_)
\* nested messages first, then the message itself
genMessages(ids) ==
  IF Len(ids) = 0 THEN <<>>
  ELSE genMessages(MessageDescs[Head(ids)].Messages)
       \o << genMessage(MessageDescs[Head(ids)]) >>
       \o genMessages(Tail(ids))

RECURSIVE nestedEnums(_)
\* the enums declared inside the messages, in generation order
nestedEnums(ids) ==
  IF Len(ids) = 0 THEN <<>>
  ELSE [i \in 1..Len(MessageDescs[Head(ids)].Enums) |->
          genEnum(EnumDescs[MessageDescs[Head(ids)].Enums[i]])]
       \o nestedEnums(MessageDescs[Head(ids)].Messages)
       \o nestedEnums(Tail(ids))

RECURSIVE allMessages(_)
\* the messages genMessages visits, in generation order
allMessages(ids) ==
  IF Len(ids) = 0 THEN <<>>
  ELSE allMessages(MessageDescs[Head(ids)].Messages) \o << Head(ids) >>
       \o allMessages(Tail(ids))

\* the words of the first panic genMessage raises on m, <<>> when it raises
\* none: getMbtType panics on a kind it has no case for when the struct is
\* printed
genMessagePanic(m) ==
  IF \E i \in 1..Len(m.Fields) :
       /\ ~InRealOneof(m, m.Fields[i])
       /\ ~m.Fields[i].IsMap
       /\ getMbtType(m.Fields[i]).c = "panic"
  THEN <<"unreachable">>
  \* then genRepeatedFieldRead panics on a packed kind it has no case for
  ELSE IF \E i \in 1..Len(m.Fields) :
            /\ m.Fields[i].Cardinality = "repeated"
            /\ genRepeatedFieldRead(m.Fields[i]).op = "panic"
       THEN <<"unreachable">>
       ELSE <<>>

\* the panic that ends genFile, <<>> when the file is generated
genFilePanic(file) ==
  LET ids == allMessages(file.Messages)
      failing == SelectSeq(ids, LAMBDA id : genMessagePanic(MessageDescs[id]) # <<>>)
  IN IF Len(failing) = 0 THEN <<>> ELSE genMessagePanic(MessageDescs[failing[1]])

genFile(file) ==
  [filename |-> file.GeneratedFilenamePrefix \o "_pb.mbt",
   enums |-> [i \in 1..Len(file.Enums) |-> genEnum(EnumDescs[file.Enums[i]])]
             \o nestedEnums(file.Messages),
   messages |-> genMessages(file.Messages)]

(***************************************************************************)
(* Meaning of the generated source: name resolution in the generated file, *)
(* derived defaults, and the three generated procedures.                   *)
(***************************************************************************)
Some == <<"S","o","m","e">>
None == <<"N","o","n","e">>
NotSet == <<"N","o","t","S","e","t">>

First(seq, P(_)) == seq[CHOOSE i \in 1..Len(seq) : P(seq[i]) /\ \A j \in 1..(i - 1) : ~P(seq[j])]
Has(seq, P(_)) == \E i \in 1..Len(seq) : P(seq[i])

RECURSIVE Flatten(_)
Flatten(ss) == IF Len(ss) = 0 THEN <<>> ELSE Head(ss) \o Flatten(Tail(ss))

RECURSIVE Sum(_)
Sum(ns) == IF Len(ns) = 0 THEN 0 ELSE Head(ns) + Sum(Tail(ns))

IsEnum(g, name) == Has(g.enums, LAMBDA e : e.name = name)
IsMessage(g, name) == Has(g.messages, LAMBDA gm : gm.name = name)
FindEnum(g, name) == First(g.enums, LAMBDA e : e.name = name)
FindMessage(g, name) == First(g.messages, LAMBDA gm : gm.name = name)
OneofEnums(g) == Flatten([i \in 1..Len(g.messages) |-> g.messages[i].oneofEnums])
IsOneofEnum(g, name) == Has(OneofEnums(g), LAMBDA e : e.name = name)
FindOneofEnum(g, name) == First(OneofEnums(g), LAMBDA e : e.name = name)

MemberNames(gm) == {gm.struct[i].name : i \in 1..Len(gm.struct)}
MemberType(gm, name) == First(gm.struct, LAMBDA mem : mem.name = name).type

\* the payload type of a variant of an Option or of a generated oneof enum
VariantType(g, ty, ctor) ==
  IF ty.c = "Option" THEN ty.args[1]
  ELSE First(FindOneofEnum(g, ty.name).variants, LAMBDA va : va.ctor = ctor).type

to_enum(ge, ctor) == First(ge.to_enum, LAMBDA arm : arm.ctor = ctor).number
from_enum(ge, n) ==
  IF Has(ge.from_enum, LAMBDA arm : arm.number = n)
  THEN First(ge.from_enum, LAMBDA arm : arm.number = n).ctor
  ELSE ge.default

RECURSIVE DefaultOf(_, _)
\* derive(Default) and the explicit default functions
DefaultOf(g, ty) ==
  CASE ty.c = "Bool" -> FALSE
    [] ty.c \in {"Int", "Int64", "UInt", "UInt64", "Float", "Double"} -> 0
    [] ty.c \in {"String", "Bytes", "Array", "Map"} -> <<>>
    [] ty.c = "Option" -> [ctor |-> None]
    [] ty.c = "Named" /\ IsEnum(g, ty.name) -> FindEnum(g, ty.name).default
    [] ty.c = "Named" /\ IsOneofEnum(g, ty.name) ->
         [ctor |-> FindOneofEnum(g, ty.name).default]
    [] OTHER ->
         LET gm == FindMessage(g, ty.name) IN
         [n \in MemberNames(gm) |-> DefaultOf(g, MemberType(gm, n))]

DefaultMessage(g, name) == DefaultOf(g, Ty("Named", name, <<>>))

RECURSIVE Unfolds(_, _, _)
\* the derived default of the struct name holds the derived default of
\* another struct, and so on more than left times
Unfolds(g, name, left) ==
  LET gm == FindMessage(g, name) IN
  \E n \in MemberNames(gm) :
    LET ty == MemberType(gm, n) IN
    /\ ty.c = "Named"
    /\ IsMessage(g, ty.name)
    /\ (left = 0 \/ Unfolds(g, ty.name, left - 1))

\* the derived default of the struct name has no end: it nests more structs
\* than the file declares, so one of them holds itself
DefaultDiverges(g, name) == Unfolds(g, name, Len(g.messages))

(* ---- size_of ---- *)
RECURSIVE SizedOf(_, _, _)
RECURSIVE EvalSizeTerm(_, _, _, _)
RECURSIVE EvalSizeLine(_, _, _, _)
RECURSIVE MessageSize(_, _, _)

\* @lib.size_of(x) for x of static type ty
SizedOf(g, ty, x) ==
  CASE ty.c = "Bool" -> 1
    [] ty.c \in {"Int", "Int64", "UInt", "UInt64"} -> size_of_varint(x)
    [] ty.c = "Float" -> 4
    [] ty.c = "Double" -> 8
    [] ty.c \in {"String", "Bytes"} -> Len(x)
    [] ty.c = "Named" /\ IsEnum(g, ty.name) ->
         size_of_varint(to_enum(FindEnum(g, ty.name), x))
    [] OTHER -> MessageSize(g, ty.name, x)

EvalSizeTerm(g, term, ty, x) ==
  CASE term.form = "len" ->
         LET size == SizedOf(g, ty, x) IN
         term.tagSize + size_of_varint(size) + size
    [] term.form = "const" -> term.tagSize + term.width
    [] OTHER -> term.tagSize + SizedOf(g, ty, x)

EvalSizeLine(g, gm, line, self) ==
  LET ty == MemberType(gm, line.field)
      x == self[line.field]
  IN
  CASE line.op = "size_packed_fixed" ->
         LET size == Len(x) * line.width IN
         line.tagSize + size_of_varint(size) + size
    [] line.op = "size_packed_varint" ->
         LET size == Sum([i \in 1..Len(x) |-> SizedOf(g, ty.args[1], x[i])]) IN
         line.tagSize + size_of_varint(size) + size
    [] line.op = "size_list" ->
         Sum([i \in 1..Len(x) |->
                LET s == SizedOf(g, ty.args[1], x[i]) IN
                line.tagSize + size_of_varint(s) + s])
    [] line.op = "size_map" ->
         Sum([i \in 1..Len(x) |->
                LET key_size == EvalSizeTerm(g, line.key, ty.args[1], x[i].key)
                    value_size == EvalSizeTerm(g, line.value, ty.args[2], x[i].value)
                IN line.tagSize + size_of_varint(key_size + value_size)
                   + key_size + value_size])
    [] line.op = "size_single" -> EvalSizeTerm(g, line.term, ty, x)
    [] OTHER ->
         IF Has(line.arms, LAMBDA arm : arm.ctor = x.ctor)
         THEN EvalSizeTerm(g, First(line.arms, LAMBDA arm : arm.ctor = x.ctor).term,
                           VariantType(g, ty, x.ctor), x.v)
         ELSE 0

MessageSize(g, name, self) ==
  LET gm == FindMessage(g, name) IN
  IF gm.size.empty THEN 0
  ELSE Sum([i \in 1..Len(gm.size.lines) |-> EvalSizeLine(g, gm, gm.size.lines[i], self)])

(* ---- write ---- *)
RECURSIVE WriteValue(_, _, _, _)
RECURSIVE WriteLine(_, _, _, _)
RECURSIVE WriteRecords(_, _, _)

Bytes(records) == Flatten([i \in 1..Len(records) |-> records[i].bytes])

\* the bytes one genFieldWrite expression appends for x of static type ty
WriteValue(g, w, ty, x) ==
  CASE w.fn \in {"write_string", "write_bytes"} -> encode_bytes(x)
    [] w.fn = "write_message" ->
         encode_varint(SizedOf(g, ty, x)) \o Bytes(WriteRecords(g, ty.name, x))
    [] w.fn \in {"write_fixed32", "write_sfixed32", "write_float"} -> encode_fixed32(x)
    [] w.fn \in {"write_fixed64", "write_sfixed64", "write_double"} -> encode_fixed64(x)
    [] w.fn = "write_bool" -> IF x THEN <<1>> ELSE <<0>>
    [] w.fn \in {"write_int32", "write_int64"} -> encode_int64(x)
    [] w.fn \in {"write_sint32", "write_sint64"} -> encode_varint(zigzag_encode(x))
    [] w.fn \in {"write_uint32", "write_uint64"} -> encode_varint(x)
    [] OTHER -> encode_int64(to_enum(FindEnum(g, ty.name), x))

\* the records one generated statement writes: the tag written and all bytes
WriteLine(g, gm, line, self) ==
  LET ty == MemberType(gm, line.field)
      x == self[line.field]
  IN
  CASE line.op = "write_packed" ->
         LET size == IF line.width # 0 THEN Len(x) * line.width
                     ELSE Sum([i \in 1..Len(x) |-> SizedOf(g, ty.args[1], x[i])])
         IN << [tag |-> line.tag,
                bytes |-> encode_varint(line.tag) \o encode_varint(size)
                          \o Flatten([i \in 1..Len(x) |->
                                        WriteValue(g, line.elem, ty.args[1], x[i])])] >>
    [] line.op = "write_list" ->
         [i \in 1..Len(x) |->
            [tag |-> line.tag,
             bytes |-> encode_varint(line.tag)
                       \o WriteValue(g, line.elem, ty.args[1], x[i])]]
    [] line.op = "write_map" ->
         [i \in 1..Len(x) |->
            LET key_size == EvalSizeTerm(g, line.key, ty.args[1], x[i].key)
                value_size == EvalSizeTerm(g, line.value, ty.args[2], x[i].value)
                len == IF line.entryLen = "prefix_and_payload"
                       THEN size_of_varint(key_size + value_size) + key_size + value_size
                       ELSE key_size + value_size
            IN [tag |-> line.tag,
                bytes |-> encode_varint(line.tag) \o encode_varint(len)
                          \o encode_varint(line.keyTag)
                          \o WriteValue(g, line.keyWrite, ty.args[1], x[i].key)
                          \o encode_varint(line.valueTag)
                          \o WriteValue(g, line.valueWrite, ty.args[2], x[i].value)]]
    [] line.op = "write_single" ->
         << [tag |-> line.tag,
             bytes |-> encode_varint(line.tag) \o WriteValue(g, line.elem, ty, x)] >>
    [] OTHER ->
         IF Has(line.arms, LAMBDA arm : arm.ctor = x.ctor)
         THEN LET arm == First(line.arms, LAMBDA a : a.ctor = x.ctor) IN
              << [tag |-> arm.tag,
                  bytes |-> encode_varint(arm.tag)
                            \o WriteValue(g, arm.elem, VariantType(g, ty, x.ctor), x.v)] >>
         ELSE <<>>

WriteRecords(g, name, self) ==
  LET gm == FindMessage(g, name) IN
  Flatten([i \in 1..Len(gm.write.lines) |-> WriteLine(g, gm, gm.write.lines[i], self)])

\* @lib.Write::write(self, writer): the bytes appended to the writer
WriteMessage(g, name, self) == Bytes(WriteRecords(g, name, self))

(* ---- read ---- *)
RECURSIVE ReadValue(_, _, _, _)
RECURSIVE ReadPacked(_, _, _, _)
RECURSIVE ReadArm(_, _, _, _, _)
RECURSIVE ReadStep(_, _, _, _, _)
RECURSIVE ReadLoop(_, _, _, _, _)
RECURSIVE ReadMessage(_, _, _)

Map1(r, F(_)) == IF r.ok THEN Ok(F(r.v), r.pos) ELSE r

\* one value read by a kindReadFunc of the library
ReadPrimitive(fn, buf, pos) ==
  CASE fn = "read_bool" -> Map1(read_varint(buf, pos), LAMBDA v : v # 0)
    [] fn \in {"read_int32", "read_int64", "read_uint32", "read_uint64", "read_enum"} ->
         read_varint(buf, pos)
    [] fn \in {"read_sint32", "read_sint64"} ->
         Map1(read_varint(buf, pos), zigzag_decode)
    [] fn \in {"read_fixed32", "read_float"} -> read_fixed(buf, pos, 4, FALSE)
    [] fn = "read_sfixed32" -> read_fixed(buf, pos, 4, TRUE)
    [] fn \in {"read_fixed64", "read_double"} -> read_fixed(buf, pos, 8, FALSE)
    [] fn = "read_sfixed64" -> read_fixed(buf, pos, 8, TRUE)
    [] fn \in {"read_string", "read_bytes"} -> read_bytes(buf, pos)
    [] OTHER -> Fail(pos)

\* the expression genKindRead emitted, run at pos
ReadValue(g, rd, buf, pos) ==
  CASE rd.fn = "from_enum" ->
         Map1(ReadPrimitive("read_enum", buf, pos),
              LAMBDA n : from_enum(FindEnum(g, rd.type), n))
    [] rd.fn = "read_message" ->
         LET block == read_bytes(buf, pos) IN
         IF ~block.ok THEN Fail(pos)
         ELSE LET sub == ReadMessage(g, rd.type, block.v) IN
              IF sub.ok THEN Ok(sub.v, block.pos) ELSE Fail(pos)
    [] OTHER -> ReadPrimitive(rd.fn, buf, pos)

\* @lib.read_packed: the elements of a block, read until it is exhausted
ReadPacked(fn, block, pos, acc) ==
  IF is_eof(block, pos) THEN Ok(acc, pos)
  ELSE LET e == ReadPrimitive(fn, block, pos) IN
       IF ~e.ok THEN Fail(pos)
       ELSE ReadPacked(fn, block, e.pos, Append(acc, e.v))

\* a map store that keeps every entry read
Upsert_Append(map, key, value) == Append(map, [key |-> key, value |-> value])

\* msg.field[key] = value
Upsert(map, key, value) ==
  IF Has(map, LAMBDA e : e.key = key)
  THEN [i \in 1..Len(map) |->
          IF map[i].key = key THEN [key |-> key, value |-> value] ELSE map[i]]
  ELSE Append(map, [key |-> key, value |-> value])

\* the right-hand side of one match arm, run after the tag was read
ReadArm(g, arm, msg, buf, pos) ==
  CASE arm.op = "assign" ->
         LET r == ReadValue(g, arm.read, buf, pos) IN
         IF ~r.ok THEN Fail(pos)
         ELSE Ok([msg EXCEPT ![arm.field] =
                    IF arm.oneOfConstructor # <<>>
                    THEN [ctor |-> arm.oneOfConstructor, v |-> r.v]
                    ELSE IF arm.optionalConstructor
                         THEN [ctor |-> Some, v |-> r.v]
                         ELSE r.v], r.pos)
    [] arm.op = "push_packed" ->
         LET block == read_bytes(buf, pos) IN
         IF ~block.ok THEN Fail(pos)
         ELSE LET es == ReadPacked(arm.fn, block.v, 1, <<>>) IN
              IF ~es.ok THEN Fail(pos)
              ELSE Ok([msg EXCEPT ![arm.field] = @ \o es.v], block.pos)
    [] arm.op = "map_set" ->
         LET r == ReadValue(g, arm.read, buf, pos) IN
         IF ~r.ok THEN Fail(pos)
         ELSE Ok([msg EXCEPT ![arm.field] =
                    Upsert(@, r.v[<<"k","e","y">>], r.v[<<"v","a","l","u","e">>])], r.pos)
    [] OTHER ->
         LET r == ReadValue(g, arm.read, buf, pos) IN
         IF ~r.ok THEN Fail(pos)
         ELSE Ok([msg EXCEPT ![arm.field] = Append(@, r.v)], r.pos)

\* an iteration that ends the loop when a read fails, keeping msg as it is
ReadStep_StopOnError(g, gm, msg, buf, pos) ==
  LET t == read_tag(buf, pos) IN
  IF ~t.ok THEN Ok(msg, Len(buf) + 1)
  ELSE IF Has(gm.read.arms, LAMBDA arm : arm.number = t.v[1])
       THEN LET r == ReadArm(g, First(gm.read.arms, LAMBDA arm : arm.number = t.v[1]),
                             msg, buf, t.pos)
            IN IF r.ok THEN r ELSE Ok(msg, Len(buf) + 1)
       ELSE LET r == read_unknown(buf, t.pos, t.v[2])
            IN IF r.ok THEN Ok(msg, r.pos) ELSE Ok(msg, Len(buf) + 1)

\* an iteration that leaves the cursor where it was when the field is not one
\* of the message
ReadStep_NoSkip(g, gm, msg, buf, pos) ==
  LET t == read_tag(buf, pos) IN
  IF ~t.ok THEN Fail(pos)
  ELSE IF Has(gm.read.arms, LAMBDA arm : arm.number = t.v[1])
       THEN ReadArm(g, First(gm.read.arms, LAMBDA arm : arm.number = t.v[1]),
                    msg, buf, t.pos)
       ELSE Ok(msg, pos)

\* one iteration of the generated while loop: read a tag, run its arm
ReadStep(g, gm, msg, buf, pos) ==
  LET t == read_tag(buf, pos) IN
  IF ~t.ok THEN Fail(pos)
  ELSE IF Has(gm.read.arms, LAMBDA arm : arm.number = t.v[1])
       THEN ReadArm(g, First(gm.read.arms, LAMBDA arm : arm.number = t.v[1]),
                    msg, buf, t.pos)
       ELSE LET r == IF gm.read.rest = "read_unknown"
                     THEN read_unknown(buf, t.pos, t.v[2])
                     ELSE read_varint(buf, t.pos)
            IN IF r.ok THEN Ok(msg, r.pos) ELSE Fail(pos)

ReadLoop(g, gm, msg, buf, pos) ==
  IF is_eof(buf, pos) THEN Ok(msg, pos)
  ELSE LET r == ReadStep(g, gm, msg, buf, pos) IN
       IF ~r.ok THEN r ELSE ReadLoop(g, gm, r.v, buf, r.pos)

\* @lib.Read::read of the named message on a reader over buf
ReadMessage(g, name, buf) ==
  LET gm == FindMessage(g, name) IN
  IF gm.read.empty THEN Ok(DefaultMessage(g, name), 1)
  ELSE ReadLoop(g, gm, DefaultMessage(g, name), buf, 1)

(***************************************************************************)
(* Inputs: the values handed to size and write, and the wire buffers       *)
(* handed to read (as the test generator test/go-gen marshals them).       *)
(***************************************************************************)
BoundedSeq(S, n) == UNION {[1..k -> S] : k \in 0..n}

RECURSIVE Product(_)
\* all structs over a sequence of <<member name, set of values>>
Product(members) ==
  IF Len(members) = 0 THEN {<<>>}
  ELSE {(Head(members)[1] :> v) @@ rest :
          v \in Head(members)[2], rest \in Product(Tail(members))}

Variant(ctor, vs) == {[ctor |-> ctor, v |-> v] : v \in vs}

MapValues(keys, vals, n) ==
  {es \in BoundedSeq([key : keys, value : vals], n) :
     \A i, j \in 1..Len(es) : i # j => es[i].key # es[j].key}

\* lists of up to two elements
NilValues == Product(<< <<<<"t">>, {[ctor |-> NotSet]}>> >>)

ConsValues(tails) ==
  Product(<< <<<<"v","a","l","u","e">>, {0, 1}>>, <<<<"n","e","x","t">>, tails>> >>)

ListValues(tails) ==
  Product(<< <<<<"t">>, {[ctor |-> NotSet]}
                          \cup Variant(<<"C","o","n","s">>, ConsValues(tails))>> >>)

BarValues == Product(<< <<<<"b","_","a">>, {-1, 0, 1, 300}>> >>)

InnerValues == Product(<< <<<<"i","_","s">>, {-1, 0, 2}>> >>)

MidValues == Product(<< <<<<"m","_","i">>, InnerValues>> >>)

\* the values of the generated struct of each message
Values(id) ==
  CASE id = "MScalar" ->
         Product(<< <<<<"f","_","a">>, {-1, 0, 1, 300}>>,
                    <<<<"f","_","s">>, {-2, 0, 1}>>,
                    <<<<"f","_","t">>, {<<>>, <<97, 98>>}>> >>)
    [] id = "MRep" ->
         Product(<< <<<<"r","_","p">>, BoundedSeq({-1, 1}, MaxElems)>>,
                    <<<<"r","_","t">>, BoundedSeq({<<97>>}, MaxElems)>>,
                    <<<<"r","_","f">>, BoundedSeq({1}, MaxElems)>> >>)
    [] id = "MP" ->
         Product(<< <<<<"r","_","u">>, BoundedSeq({1, 300}, MaxElems)>>,
                    <<<<"f","_","a">>, {-1, 0, 1}>>,
                    <<<<"f","_","b">>, BOOLEAN>> >>)
    [] id = "MMap" ->
         Product(<< <<<<"f","_","m">>, MapValues({1, 2}, {0, 5}, MaxEntries)>>,
                    <<<<"f","_","a">>, {0, 7}>> >>)
    [] id = "MOne" ->
         Product(<< <<<<"f","_","t">>, {<<>>, <<97>>}>>,
                    <<<<"f","_","o">>, {[ctor |-> None]} \cup Variant(Some, {0, 3})>>,
                    <<<<"k","i","n","d">>,
                      {[ctor |-> NotSet]} \cup Variant(<<"F","1">>, {0, 5})
                        \cup Variant(<<"F","2">>, {0, 9})>> >>)
    [] id = "Bar" -> BarValues
    [] id = "MMapEntry" ->
         Product(<< <<<<"k","e","y">>, {1}>>, <<<<"v","a","l","u","e">>, {0, 5}>> >>)
    [] id = "MNest" ->
         Product(<< <<<<"f","_","b">>, BarValues>>,
                    <<<<"f","_","e">>, {<<"F","o","o","_","A">>, <<"F","o","o","_","B">>}>>,
                    <<<<"f","_","x">>, {-2, 0, 5}>> >>)
    [] id = "MPk" ->
         Product(<< <<<<"p","_","s">>, BoundedSeq({-1, 1}, MaxElems)>> >>)
    [] id = "Inner" -> InnerValues
    [] id = "Mid" -> MidValues
    [] id = "MHold" ->
         Product(<< <<<<"h","_","e">>, {<<>>}>>, <<<<"h","_","a">>, {0, 1}>> >>)
    [] id = "MList" -> ListValues(ListValues(NilValues))
    [] id = "MCons" -> ConsValues(ListValues(NilValues))
    \* no finite value of a struct that holds itself can be built
    [] id \in {"MSelf", "MPing", "MPong"} -> {}
    [] id = "MDeep" ->
         Product(<< <<<<"d","_","m">>, MidValues>>,
                    <<<<"d","_","r">>,
                      BoundedSeq({v \in InnerValues : v[<<"i","_","s">>] # 0}, MaxElems)>> >>)
    [] OTHER -> {<<>>}

(* ---- wire records: number, wire type, payload after the tag ---- *)
\* class: "canon" the encoding the schema declares, "alt" the other of
\* packed / unpacked, "mismatch" a declared number under another wire type,
\* "unknown" an undeclared number, "truncated" a record cut short, its payload
\* being all its bytes, tag included.  elems: the elements of a repeated
\* scalar, or <<key, value>> of a map entry.
Rec(number, wire, payload, class, elems) ==
  [number |-> number, wire |-> wire, payload |-> payload, class |-> class,
   elems |-> elems]

Render(rec) ==
  IF rec.class = "truncated" THEN rec.payload
  ELSE encode_varint(EncodeTag(rec.number, rec.wire))
       \o (IF rec.wire = BytesType THEN encode_bytes(rec.payload) ELSE rec.payload)

RenderAll(recs) == Flatten([i \in 1..Len(recs) |-> Render(recs[i])])

\* one record of each skippable wire type under a number no message declares
UnknownRecs ==
  LET number == 9999 IN
  { Rec(number, VarintType, encode_varint(300), "unknown", <<>>),
    Rec(number, Fixed32Type, encode_fixed32(1), "unknown", <<>>),
    Rec(number, Fixed64Type, encode_fixed64(1), "unknown", <<>>),
    Rec(number, BytesType, <<8, 1>>, "unknown", <<>>) }

EntryPayload(k, v) ==
  Render(Rec(1, VarintType, encode_int64(k), "canon", <<>>))
  \o Render(Rec(2, VarintType, encode_int64(v), "canon", <<>>))

\* the encoding of an Inner message holding n
InnerPayload(n) ==
  Render(Rec(1, VarintType, encode_varint(zigzag_encode(n)), "canon", <<>>))

\* the encoding of a Cons of value n and the encoded list next
ConsPayload(n, next) ==
  Render(Rec(1, VarintType, encode_int64(n), "canon", <<>>))
  \o Render(Rec(2, BytesType, next, "canon", <<>>))

WireRecs(id) ==
  CASE id = "MScalar" ->
         { Rec(1, VarintType, encode_int64(300), "canon", <<>>),
           Rec(2, VarintType, encode_varint(zigzag_encode(-2)), "canon", <<>>),
           Rec(3, BytesType, <<97>>, "canon", <<>>),
           Rec(1, Fixed32Type, encode_fixed32(1), "mismatch", <<>>),
           Rec(1, BytesType, <<16, 3>>, "mismatch", <<>>),
           Rec(3, VarintType, encode_varint(1), "mismatch", <<>>) }
    [] id = "MRep" ->
         { Rec(1, BytesType, encode_int64(1) \o encode_int64(2), "canon", <<1, 2>>),
           Rec(1, VarintType, encode_int64(1), "alt", <<1>>),
           Rec(2, BytesType, <<>>, "canon", <<>>),
           Rec(3, BytesType, encode_fixed32(7), "canon", <<7>>),
           Rec(3, Fixed32Type, encode_fixed32(7), "alt", <<7>>) }
    [] id = "MP" ->
         { Rec(1, VarintType, encode_int64(5), "canon", <<5>>),
           Rec(1, BytesType, encode_int64(5) \o encode_int64(6), "alt", <<5, 6>>),
           Rec(2, VarintType, encode_int64(0), "canon", <<>>),
           Rec(3, VarintType, <<1>>, "canon", <<>>) }
    [] id = "MMap" ->
         { Rec(1, BytesType, EntryPayload(1, 5), "canon", <<1, 5>>),
           Rec(1, BytesType, EntryPayload(1, 6), "canon", <<1, 6>>),
           Rec(1, BytesType, EntryPayload(2, 5), "canon", <<2, 5>>),
           Rec(2, VarintType, encode_varint(7), "canon", <<>>) }
    [] id = "MOne" ->
         { Rec(1, VarintType, encode_int64(0), "canon", <<>>),
           Rec(2, Fixed32Type, encode_fixed32(9), "canon", <<>>),
           Rec(3, BytesType, <<97>>, "canon", <<>>),
           Rec(4, VarintType, encode_int64(0), "canon", <<>>) }
    [] id = "Bar" ->
         { Rec(1, VarintType, encode_int64(-1), "canon", <<>>) }
    [] id = "MMapEntry" ->
         { Rec(1, VarintType, encode_int64(1), "canon", <<>>),
           Rec(2, VarintType, encode_int64(5), "canon", <<>>) }
    [] id = "MNest" ->
         { Rec(1, BytesType, Render(Rec(1, VarintType, encode_int64(1), "canon", <<>>)),
               "canon", <<>>),
           Rec(2, VarintType, encode_varint(1), "canon", <<>>),
           Rec(2, VarintType, encode_varint(9), "canon", <<>>),
           Rec(3, Fixed32Type, encode_fixed32(-2), "canon", <<>>) }
    [] id = "MPk" ->
         { Rec(1, BytesType,
               encode_varint(zigzag_encode(-1)) \o encode_varint(zigzag_encode(1)),
               "canon", <<-1, 1>>),
           Rec(1, VarintType, encode_varint(zigzag_encode(-1)), "alt", <<-1>>) }
    [] id = "Inner" ->
         { Rec(1, VarintType, encode_varint(zigzag_encode(-1)), "canon", <<>>) }
    \* the held message empty, and holding a field it does not declare
    [] id = "MHold" ->
         { Rec(1, BytesType, <<>>, "canon", <<>>),
           Rec(1, BytesType, <<8, 0>>, "canon", <<>>),
           Rec(2, VarintType, encode_int64(1), "canon", <<>>) }
    [] id = "MList" ->
         { Rec(1, BytesType, ConsPayload(1, <<>>), "canon", <<>>),
           Rec(1, BytesType,
               ConsPayload(0, Render(Rec(1, BytesType, ConsPayload(1, <<>>), "canon", <<>>))),
               "canon", <<>>) }
    [] id = "MCons" ->
         { Rec(1, VarintType, encode_int64(1), "canon", <<>>),
           Rec(2, BytesType, <<>>, "canon", <<>>),
           Rec(2, BytesType, Render(Rec(1, BytesType, ConsPayload(1, <<>>), "canon", <<>>)),
               "canon", <<>>) }
    [] id = "MSelf" ->
         { Rec(2, VarintType, encode_int64(1), "canon", <<>>),
           Rec(1, BytesType, <<>>, "canon", <<>>) }
    [] id = "Mid" ->
         { Rec(1, BytesType, InnerPayload(-1), "canon", <<>>) }
    [] id = "MDeep" ->
         { Rec(1, BytesType,
               Render(Rec(1, BytesType, InnerPayload(-1), "canon", <<>>)), "canon", <<>>),
           Rec(2, BytesType, InnerPayload(2), "canon", <<>>) }
    [] OTHER -> { Rec(1, VarintType, <<0>>, "unknown", <<>>) }

\* a record of the number and wire type whose bytes after the tag are rest
Cut(number, wire, rest) ==
  Rec(number, wire, encode_varint(EncodeTag(number, wire)) \o rest, "truncated", <<>>)

\* records that end before their value does: a tag, a varint, a fixed value
\* and a length-delimited value cut short, an undeclared field cut short, and
\* a cut value inside a packed block, a map entry and a nested message
TruncatedRecs(id) ==
  LET number == 9999 IN
  { Rec(0, VarintType, <<128>>, "truncated", <<>>),
    Cut(number, Fixed32Type, <<1, 0>>),
    Cut(number, BytesType, <<5, 1>>) }
  \cup
  CASE id = "MScalar" ->
         { Cut(1, VarintType, <<128>>), Cut(3, BytesType, <<3, 97>>) }
    [] id = "MRep" ->
         { Cut(1, BytesType, <<1, 128>>), Cut(3, BytesType, <<2, 1, 0>>) }
    [] id = "MP" -> { Cut(1, VarintType, <<128>>) }
    [] id = "MMap" -> { Cut(1, BytesType, <<3, 8, 1, 16>>) }
    [] id = "MOne" -> { Cut(2, Fixed32Type, <<9, 0>>) }
    [] id = "MNest" ->
         { Cut(1, BytesType, <<1, 8>>), Cut(2, VarintType, <<128>>),
           Cut(3, Fixed32Type, <<1>>) }
    [] id = "MPk" -> { Cut(1, BytesType, <<2, 1, 128>>) }
    [] id = "Mid" -> { Cut(1, BytesType, <<1, 8>>) }
    [] id = "MDeep" ->
         { Cut(1, BytesType, <<3, 10, 1, 8>>), Cut(2, BytesType, <<2, 8, 128>>) }
    [] OTHER -> {}

\* the buffers read: up to MaxRecs records of the message
WireInputs(id) == BoundedSeq(WireRecs(id), MaxRecs)

\* recs with r inserted so that it becomes the record at position i
InsertAt(recs, i, r) == SubSeq(recs, 1, i - 1) \o <<r>> \o SubSeq(recs, i, Len(recs))

(***************************************************************************)
(* The state machine: the generator runs once, then the generated          *)
(* procedures of one message are run on values and buffers.                *)
(***************************************************************************)
VARIABLES
  request,    \* the file names of the generator request
  generated,  \* the generated files, <<>> until main has run
  failure,    \* the words of the panic that ended main, <<>> = none
  history,    \* the runs of main so far: [request, outputs] of each
  target,     \* the message whose procedures are run ("" = none yet)
  self,       \* the value handed to size_of and write
  size,       \* the result of size_of(self), -1 = not run
  writer,     \* the bytes written by write(self, writer)
  written,    \* write has run on self
  reader,     \* [buf, pos, source]: the reader handed to read
  msg,        \* the message being built by read
  status      \* "start", "failed", "idle", "reading", "done", "error",
              \* "diverged": building the default message never ends

vars == <<request, generated, failure, history, target, self, size, writer, written, reader, msg, status>>

NoReader == [buf |-> <<>>, pos |-> 1, source |-> "none", recs |-> <<>>, inj |-> 0]

Init ==
  /\ request \in Requests
  /\ generated = <<>>
  /\ failure = <<>>
  /\ history = <<>>
  /\ target = ""
  /\ self = <<>>
  /\ size = -1
  /\ writer = <<>>
  /\ written = FALSE
  /\ reader = NoReader
  /\ msg = <<>>
  /\ status = "start"

\* main: genFile for every file of the request flagged for generation
\* a main that generates every file of the request, flagged or not
Main_AllFiles ==
  /\ status = "start"
  /\ LET flagged == request
         panics == SelectSeq(flagged, LAMBDA f : genFilePanic(FileDescs[f]) # <<>>)
     IN IF Len(panics) # 0
        \* a panic ends the process: no response, no generated file
        THEN /\ failure' = genFilePanic(FileDescs[panics[1]])
             /\ generated' = <<>>
             /\ status' = "failed"
        ELSE /\ failure' = <<>>
             /\ generated' = [i \in 1..Len(flagged) |-> genFile(FileDescs[flagged[i]])]
             /\ status' = "idle"
  /\ history' = Append(history, [request |-> request, outputs |-> generated'])
  /\ UNCHANGED <<request, target, self, size, writer, written, reader, msg>>

\* a main whose files share one output buffer: the text of a file follows the
\* text of the files generated before it
Main_SharedBuffer ==
  /\ status = "start"
  /\ LET flagged == SelectSeq(request, LAMBDA f : FileDescs[f].Generate)
         panics == SelectSeq(flagged, LAMBDA f : genFilePanic(FileDescs[f]) # <<>>)
     IN IF Len(panics) # 0
        \* a panic ends the process: no response, no generated file
        THEN /\ failure' = genFilePanic(FileDescs[panics[1]])
             /\ generated' = <<>>
             /\ status' = "failed"
        ELSE /\ failure' = <<>>
             /\ generated' =
                  [i \in 1..Len(flagged) |->
                     [genFile(FileDescs[flagged[i]]) EXCEPT
                        !.messages = Flatten([k \in 1..i |->
                                                genFile(FileDescs[flagged[k]]).messages])]]
             /\ status' = "idle"
  /\ history' = Append(history, [request |-> request, outputs |-> generated'])
  /\ UNCHANGED <<request, target, self, size, writer, written, reader, msg>>

Main ==
  /\ status = "start"
  /\ LET flagged == SelectSeq(request, LAMBDA f : FileDescs[f].Generate)
         panics == SelectSeq(flagged, LAMBDA f : genFilePanic(FileDescs[f]) # <<>>)
     IN IF Len(panics) # 0
        \* a panic ends the process: no response, no generated file
        THEN /\ failure' = genFilePanic(FileDescs[panics[1]])
             /\ generated' = <<>>
             /\ status' = "failed"
        ELSE /\ failure' = <<>>
             /\ generated' = [i \in 1..Len(flagged) |-> genFile(FileDescs[flagged[i]])]
             /\ status' = "idle"
  /\ history' = Append(history, [request |-> request, outputs |-> generated'])
  /\ UNCHANGED <<request, target, self, size, writer, written, reader, msg>>

\* the variables a size term or a write call names
TermVars(term) == IF "var" \in DOMAIN term THEN {term.var} ELSE {}

\* the variables a generated line names
UsedVars(line) ==
  CASE line.op \in {"size_map"} -> TermVars(line.key) \cup TermVars(line.value)
    [] line.op \in {"write_map"} ->
         TermVars(line.key) \cup TermVars(line.value)
           \cup TermVars(line.keyWrite) \cup TermVars(line.valueWrite)
    [] line.op \in {"write_packed", "write_list", "write_single"} -> TermVars(line.elem)
    [] line.op \in {"size_single"} -> TermVars(line.term)
    [] line.op \in {"size_match"} ->
         UNION {TermVars(line.arms[i].term) : i \in 1..Len(line.arms)}
    [] line.op \in {"write_match"} ->
         UNION {TermVars(line.arms[i].elem) : i \in 1..Len(line.arms)}
    [] OTHER -> {}

\* the variables bound where a generated line stands: self, the parameter of
\* the closure, the pair taken apart by `let (k, v) = key_value`, the
\* variable of the pattern of a match arm
BoundVars(line) ==
  CASE line.op \in {"size_map", "write_map"} -> {"self", "key_value", "k", "v"}
    [] line.op \in {"write_packed", "write_list", "size_match", "write_match"} ->
         {"self", "v"}
    [] OTHER -> {"self"}

\* the variables the procedures of gm name without binding them
Unbound(gm) ==
  UNION {UsedVars(gm.size.lines[i]) \ BoundVars(gm.size.lines[i]) :
           i \in 1..Len(gm.size.lines)}
  \cup UNION {UsedVars(gm.write.lines[i]) \ BoundVars(gm.write.lines[i]) :
                i \in 1..Len(gm.write.lines)}

\* the members the procedures of gm access on the message value
Accessed(gm) ==
  {gm.size.lines[i].field : i \in 1..Len(gm.size.lines)}
  \cup {gm.read.arms[i].field : i \in 1..Len(gm.read.arms)}
  \cup {gm.write.lines[i].field : i \in 1..Len(gm.write.lines)}

\* a generated file compiles only when every name in it is declared
Compiles(g) ==
  \A i \in 1..Len(g.messages) :
    /\ Unbound(g.messages[i]) = {}
    /\ Accessed(g.messages[i]) \subseteq MemberNames(g.messages[i])

\* the messages whose generated procedures can be called
GeneratedIds ==
  {id \in DOMAIN MessageDescs :
     \E i \in 1..Len(generated) :
       /\ IsMessage(generated[i], MessageDescs[id].GoName)
       /\ Compiles(generated[i])}

\* the generated file that declares the message named name
G(name) == First(generated, LAMBDA g : IsMessage(g, name))

\* the target's generated name
Name == MessageDescs[target].GoName

\* a caller builds a value of a generated struct
NewValue(id, v) ==
  /\ status = "idle"
  /\ target = ""
  /\ id \in GeneratedIds
  /\ v \in Values(id)
  /\ target' = id
  /\ self' = v
  /\ size' = -1
  /\ writer' = <<>>
  /\ written' = FALSE
  /\ reader' = NoReader
  /\ msg' = <<>>
  /\ status' = "idle"
  /\ UNCHANGED <<request, failure, history, generated>>

\* @lib.size_of(self)
SizeOf ==
  /\ status = "idle"
  /\ target # ""
  /\ size = -1
  /\ size' = MessageSize(G(Name), Name, self)
  /\ UNCHANGED <<request, failure, history, generated, target, self, writer, written, reader, msg, status>>

\* @lib.Write::write(self, writer) on an empty writer
Write ==
  /\ status = "idle"
  /\ target # ""
  /\ ~written
  /\ writer' = WriteMessage(G(Name), Name, self)
  /\ written' = TRUE
  /\ UNCHANGED <<request, failure, history, generated, target, self, size, reader, msg, status>>

\* entry of the generated read: the default message, or the result at once
ReadBegin(id, r) ==
  LET name == MessageDescs[id].GoName IN
  /\ reader' = r
  /\ IF DefaultDiverges(G(name), name)
     THEN /\ msg' = <<>>
          /\ status' = "diverged"
     ELSE /\ msg' = DefaultMessage(G(name), name)
          /\ status' = IF FindMessage(G(name), name).read.empty THEN "done" ELSE "reading"
  /\ UNCHANGED <<request, failure, history, generated, self, size, writer, written>>

\* read is called on the bytes write produced
ReadWritten ==
  /\ status = "idle"
  /\ written
  /\ ReadBegin(target, [buf |-> writer, pos |-> 1, source |-> "writer",
                        recs |-> <<>>, inj |-> 0])
  /\ UNCHANGED target

\* read is called on a buffer of wire records; when inj is not 0 the record
\* unk, of an undeclared number or cut short, is inserted to become record inj
\* of the buffer
ReadWire(id, base, inj, unk) ==
  LET recs == IF inj = 0 THEN base ELSE InsertAt(base, inj, unk) IN
  /\ status = "idle"
  /\ target = ""
  /\ id \in GeneratedIds
  /\ base \in WireInputs(id)
  /\ inj \in 0..(Len(base) + 1)
  /\ unk \in UnknownRecs \cup TruncatedRecs(id)
  /\ target' = id
  /\ ReadBegin(id, [buf |-> RenderAll(recs), pos |-> 1, source |-> "wire",
                    recs |-> recs, inj |-> inj])

\* one iteration of the while loop
ReadIterate ==
  /\ status = "reading"
  /\ ~is_eof(reader.buf, reader.pos)
  /\ LET r == ReadStep(G(Name), FindMessage(G(Name), Name), msg, reader.buf, reader.pos) IN
     IF r.ok
     THEN /\ msg' = r.v
          /\ reader' = [reader EXCEPT !.pos = r.pos]
          /\ status' = "reading"
     ELSE /\ status' = "error"
          /\ UNCHANGED <<msg, reader>>
  /\ UNCHANGED <<request, failure, history, generated, target, self, size, writer, written>>

\* the loop ends at end of input and read returns msg
ReadReturn ==
  /\ status = "reading"
  /\ is_eof(reader.buf, reader.pos)
  /\ status' = "done"
  /\ UNCHANGED <<request, failure, history, generated, target, self, size, writer, written, reader, msg>>

\* a caller picks a generated message and a value of it
Construct ==
  /\ status = "idle"
  /\ target = ""
  /\ \E id \in GeneratedIds : \E v \in Values(id) : NewValue(id, v)

\* a caller picks a generated message and a buffer to read
Parse ==
  /\ status = "idle"
  /\ target = ""
  /\ \E id \in GeneratedIds : \E base \in WireInputs(id) :
       \E inj \in 0..(Len(base) + 1) :
         \E unk \in (IF inj = 0 THEN {CHOOSE u \in UnknownRecs : TRUE}
                     ELSE IF inj = Len(base) + 1
                          THEN UnknownRecs \cup TruncatedRecs(id)
                          ELSE UnknownRecs) :
           ReadWire(id, base, inj, unk)

Next ==
  \/ Main
  \/ Construct
  \/ SizeOf
  \/ Write
  \/ ReadWritten
  \/ Parse
  \/ ReadIterate
  \/ ReadReturn

Spec == Init /\ [][Next]_vars

(***************************************************************************)
(* The generator alone: requests of several files, run again and again as  *)
(* separate processes.                                                     *)
(***************************************************************************)
GenFiles == {"scalar", "nest", "grp", "dep"}

\* requests of up to MaxFiles different files
GenRequests ==
  {r \in BoundedSeq(GenFiles, MaxFiles) :
     Len(r) > 0 /\ \A i, j \in 1..Len(r) : i # j => r[i] # r[j]}

InitGen ==
  /\ request \in GenRequests
  /\ generated = <<>>
  /\ failure = <<>>
  /\ history = <<>>
  /\ target = ""
  /\ self = <<>>
  /\ size = -1
  /\ writer = <<>>
  /\ written = FALSE
  /\ reader = NoReader
  /\ msg = <<>>
  /\ status = "start"

\* the plugin is started again, as a new process, on another request
Restart ==
  /\ status \in {"idle", "failed"}
  /\ Len(history) < MaxRuns
  /\ request' \in GenRequests
  /\ generated' = <<>>
  /\ failure' = <<>>
  /\ status' = "start"
  /\ UNCHANGED <<history, target, self, size, writer, written, reader, msg>>

NextGen ==
  \/ Main
  \/ Restart

SpecGen == InitGen /\ [][NextGen]_vars

(***************************************************************************)
(* Properties.  The output is examined on the wire: a buffer is split into *)
(* its top-level records by the wire format alone, without the decoder.    *)
(***************************************************************************)
Desc == MessageDescs[target]

RECURSIVE SplitNumbers(_, _)
\* the field numbers of the records of buf from pos on; -1 marks bytes that
\* are no record
SplitNumbers(buf, pos) ==
  IF is_eof(buf, pos) THEN <<>>
  ELSE LET t == read_tag(buf, pos) IN
       IF ~t.ok THEN <<-1>>
       ELSE LET r == read_unknown(buf, t.pos, t.v[2]) IN
            IF ~r.ok THEN <<t.v[1], -1>>
            ELSE <<t.v[1]>> \o SplitNumbers(buf, r.pos)

WireNumbers(buf) == SplitNumbers(buf, 1)

Count(n, ns) == Cardinality({i \in 1..Len(ns) : ns[i] = n})

\* the struct member that holds the field
MemberOf(m, field) ==
  IF InRealOneof(m, field) THEN PascalToSnake(m.Oneofs[field.Oneof].GoName)
  ELSE PascalToSnake(field.JSONName)

Zero(field) == DefaultOf(G(Name), getMbtType(field))

\* the field as assigned in value v of the struct: unset, or set to its zero
IsUnset(m, field, v) ==
  IF InRealOneof(m, field) THEN v[MemberOf(m, field)].ctor = NotSet
  ELSE IF InSyntheticOneof(m, field) THEN v[MemberOf(m, field)].ctor = None
  ELSE v[MemberOf(m, field)] = DefaultOf(G(Name), getFieldMbtType(field))

IsZero(m, field, v) ==
  IF InRealOneof(m, field)
  THEN v[MemberOf(m, field)] = [ctor |-> field.GoName, v |-> Zero(field)]
  ELSE IF InSyntheticOneof(m, field)
       THEN v[MemberOf(m, field)] = [ctor |-> Some, v |-> Zero(field)]
       ELSE v[MemberOf(m, field)] = Zero(field)

ExplicitPresence(m, field) ==
  /\ field.Cardinality = "optional"
  /\ m.Syntax = "proto2" \/ field.Oneof # NoOneof

ImplicitPresence(m, field) ==
  /\ field.Cardinality = "optional"
  /\ m.Syntax = "proto3"
  /\ field.Oneof = NoOneof
  /\ field.Kind # "message"

Finished == status \in {"done", "error"}

\* C1: size_of(v) is the number of bytes write(v) appends, for every value
C1_SizeIsEncodedLength ==
  (size # -1 /\ written) => size = Len(writer)

\* C2: reading the bytes written for v succeeds and returns v
C2_RoundTrip ==
  (Finished /\ reader.source = "writer") => (status = "done" /\ msg = self)

\* C3: for an explicit-presence field (proto2 singular, proto3 optional,
\* oneof member) the unset field is written as no record, the field assigned
\* its zero as one record, and reading the bytes gives the same field back
C3_ZeroDistinctFromUnset ==
  written =>
    \A i \in 1..Len(Desc.Fields) :
      LET field == Desc.Fields[i] IN
      ExplicitPresence(Desc, field) =>
        /\ IsUnset(Desc, field, self) => Count(field.Number, WireNumbers(writer)) = 0
        /\ IsZero(Desc, field, self) => Count(field.Number, WireNumbers(writer)) = 1
        /\ (Finished /\ reader.source = "writer"
              /\ (IsUnset(Desc, field, self) \/ IsZero(Desc, field, self)))
             => (status = "done"
                 /\ msg[MemberOf(Desc, field)] = self[MemberOf(Desc, field)])

\* C4: an implicit-presence field (proto3 singular, outside any oneof) equal
\* to its zero value is written as no bytes
C4_ImplicitZeroOmitted ==
  written =>
    \A i \in 1..Len(Desc.Fields) :
      LET field == Desc.Fields[i] IN
      (ImplicitPresence(Desc, field) /\ IsZero(Desc, field, self))
        => Count(field.Number, WireNumbers(writer)) = 0

Without(recs, i) == SubSeq(recs, 1, i - 1) \o SubSeq(recs, i + 1, Len(recs))

Classes(recs) == {recs[i].class : i \in 1..Len(recs)}

\* the result of read on the buffer of the records recs
Decoded(recs) == ReadMessage(G(Name), Name, RenderAll(recs))

C6_MismatchedWireTypeSkipped ==
  (Finished /\ reader.source = "wire"
     /\ Classes(reader.recs) \subseteq {"canon", "unknown", "mismatch"}
     /\ "mismatch" \in Classes(reader.recs))
    => (status = "done"
        /\ msg = Decoded(SelectSeq(reader.recs, LAMBDA r : r.class # "mismatch")).v)

RepeatedScalar(field) ==
  /\ IsList(field)
  /\ field.Kind \in Varint32Kinds \cup Fixed32Kinds \cup Fixed64Kinds

\* the elements the records of recs carry for the field numbered n
ElemsOf(recs, n) ==
  Flatten([i \in 1..Len(recs) |-> IF recs[i].number = n THEN recs[i].elems ELSE <<>>])

\* C7: a repeated scalar field, declared packed or unpacked, is read from
\* packed blocks and from one record per element alike: the field holds the
\* elements of its records in buffer order
C7_PackedUnpackedEquivalent ==
  (Finished /\ reader.source = "wire"
     /\ Classes(reader.recs) \subseteq {"canon", "alt", "unknown"})
    => \A i \in 1..Len(Desc.Fields) :
         RepeatedScalar(Desc.Fields[i]) =>
           (status = "done"
            /\ msg[MemberOf(Desc, Desc.Fields[i])]
                 = ElemsOf(reader.recs, Desc.Fields[i].Number))

\* the last record of recs that is an entry of map field n with key k
LastEntry(recs, n, k) ==
  recs[CHOOSE i \in 1..Len(recs) :
         /\ recs[i].number = n /\ recs[i].elems[1] = k
         /\ \A j \in (i + 1)..Len(recs) :
              ~(recs[j].number = n /\ recs[j].elems[1] = k)]

\* C8: after reading well-formed entries of a map field, every key read has
\* exactly one entry in the map, holding the value of the last entry read for
\* that key
C8_MapLastWriteWins ==
  (Finished /\ reader.source = "wire" /\ "truncated" \notin Classes(reader.recs))
    => \A i \in 1..Len(Desc.Fields) :
         Desc.Fields[i].IsMap =>
           LET n == Desc.Fields[i].Number
               map == msg[MemberOf(Desc, Desc.Fields[i])]
           IN /\ status = "done"
              /\ \A r \in 1..Len(reader.recs) :
                   reader.recs[r].number = n =>
                     LET k == reader.recs[r].elems[1] IN
                     /\ Cardinality({e \in 1..Len(map) : map[e].key = k}) = 1
                     /\ \E e \in 1..Len(map) :
                          map[e] = [key |-> k,
                                    value |-> LastEntry(reader.recs, n, k).elems[2]]
              /\ \A e \in 1..Len(map) :
                   \E r \in 1..Len(reader.recs) :
                     reader.recs[r].number = n /\ reader.recs[r].elems[1] = map[e].key

C8_Witness ==
  /\ status = "done"
  /\ target = "MMap"
  /\ Len(reader.recs) = 2
  /\ reader.recs[1].number = 1
  /\ reader.recs[2].number = 1
  /\ reader.recs[1].elems[1] = reader.recs[2].elems[1]
  /\ reader.recs[1].elems[2] # reader.recs[2].elems[2]
  /\ msg[<<"f","_","m">>] = << [key |-> reader.recs[2].elems[1],
                                value |-> reader.recs[2].elems[2]] >>

\* C9: the bytes written hold one record for the active member of a oneof
\* and none for any other member; none at all when the oneof is NotSet / None
C9_OnlyActiveMemberWritten ==
  written =>
    \A i \in 1..Len(Desc.Fields) :
      LET field == Desc.Fields[i]
          active == self[MemberOf(Desc, field)].ctor =
                      (IF InSyntheticOneof(Desc, field) THEN Some ELSE field.GoName)
      IN field.Oneof # NoOneof =>
           Count(field.Number, WireNumbers(writer)) = (IF active THEN 1 ELSE 0)

C9_Witness ==
  /\ written
  /\ target = "MOne"
  /\ self[<<"k","i","n","d">>].ctor = <<"F","2">>
  /\ self[<<"f","_","o">>].ctor = None
  /\ Count(2, WireNumbers(writer)) = 1
  /\ Count(1, WireNumbers(writer)) = 0

\* an entry record: tag of the map field with wire type 2, a length, then
\* field 1 and field 2, the length counting exactly the bytes after it
WellFormedEntry(bytes, n) ==
  LET t == read_tag(bytes, 1)
      l == read_varint(bytes, t.pos)
      k == read_tag(bytes, l.pos)
      kv == read_unknown(bytes, k.pos, k.v[2])
      v == read_tag(bytes, kv.pos)
      vv == read_unknown(bytes, v.pos, v.v[2])
  IN /\ t.ok /\ t.v = <<n, BytesType>>
     /\ l.ok
     /\ k.ok /\ k.v[1] = 1 /\ kv.ok
     /\ v.ok /\ v.v[1] = 2 /\ vv.ok
     /\ vv.pos = Len(bytes) + 1
     /\ l.v = vv.pos - l.pos

\* C10: each map entry is written as the field's tag (wire type 2), a length
\* L, the key as field 1 and the value as field 2, L being the number of
\* bytes of the key and value records
C10_MapEntryLength ==
  written =>
    \A i \in 1..Len(Desc.Fields) :
      Desc.Fields[i].IsMap =>
        LET recs == WriteRecords(G(Name), Name, self) IN
        \A r \in 1..Len(recs) :
          recs[r].tag = EncodeTag(Desc.Fields[i].Number, BytesType)
            => WellFormedEntry(recs[r].bytes, Desc.Fields[i].Number)

RECURSIVE NestedLengthsExact(_, _, _)
RECURSIVE PrefixExact(_, _, _, _)

\* x of message type ty, written by the expression w, is varint(n) followed by
\* exactly n bytes, and so is every message inside it
PrefixExact(g, w, ty, x) ==
  LET bytes == WriteValue(g, w, ty, x)
      l == read_varint(bytes, 1)
  IN /\ l.ok
     /\ l.v = Len(bytes) - (l.pos - 1)
     /\ NestedLengthsExact(g, ty.name, x)

\* every message-typed member and repeated element of v, a value of the
\* message named name, is written with an exact length
NestedLengthsExact(g, name, v) ==
  LET gm == FindMessage(g, name) IN
  \A i \in 1..Len(gm.write.lines) :
    LET line == gm.write.lines[i] IN
    line.op \in {"write_single", "write_list"} =>
      LET ty == MemberType(gm, line.field)
          x == v[line.field]
      IN IF line.elem.fn # "write_message" THEN TRUE
         ELSE IF line.op = "write_single" THEN PrefixExact(g, line.elem, ty, x)
         ELSE \A e \in 1..Len(x) : PrefixExact(g, line.elem, ty.args[1], x[e])

\* C11: a message-typed value is written as varint(n) followed by the nested
\* message's bytes, n being their exact number, at every nesting depth
C11_NestedLengthExact ==
  written => NestedLengthsExact(G(Name), Name, self)

\* the primitive encoding of one scalar x of the kind (spec 4.1)
PrimitiveEncoding(kind, x) ==
  CASE kind \in {"int32", "int64"} -> encode_int64(x)
    [] kind \in {"uint32", "uint64"} -> encode_varint(x)
    [] kind \in {"sint32", "sint64"} -> encode_varint(zigzag_encode(x))
    [] kind = "bool" -> IF x THEN <<1>> ELSE <<0>>
    [] kind \in Fixed32Kinds -> encode_fixed32(x)
    [] kind \in {"string", "bytes"} -> encode_varint(Len(x)) \o x
    [] OTHER -> encode_fixed64(x)

\* C12: a packed repeated field is written as one record: the tag with wire
\* type 2, the byte length of the element encodings, then the element
\* encodings in order with no tags between them
C12_PackedBlock ==
  written =>
    \A i \in 1..Len(Desc.Fields) :
      LET field == Desc.Fields[i] IN
      field.IsPacked =>
        LET x == self[MemberOf(Desc, field)]
            body == Flatten([e \in 1..Len(x) |-> PrimitiveEncoding(field.Kind, x[e])])
            recs == SelectSeq(WriteRecords(G(Name), Name, self),
                              LAMBDA r : r.tag \div 8 = field.Number)
        IN /\ Len(recs) = 1
           /\ recs[1].bytes = encode_varint(EncodeTag(field.Number, BytesType))
                                \o encode_varint(Len(body)) \o body

\* the wire type the table of spec 3 assigns to a field kind
WireTypeOf(kind) ==
  CASE kind \in {"bool", "int32", "int64", "uint32", "uint64", "sint32", "sint64", "enum"} -> 0
    [] kind \in {"fixed64", "sfixed64", "double"} -> 1
    [] kind \in {"string", "bytes", "message"} -> 2
    [] OTHER -> 5

\* the encoding of one element of a repeated field of the kind
ElementEncoding(g, field, x) ==
  IF field.Kind = "message"
  THEN LET nested == WriteMessage(g, field.Message, x) IN
       encode_varint(Len(nested)) \o nested
  ELSE PrimitiveEncoding(field.Kind, x)

UnpackedFields ==
  {i \in 1..Len(Desc.Fields) :
     /\ IsList(Desc.Fields[i])
     /\ ~Desc.Fields[i].IsPacked
     /\ Desc.Fields[i].Oneof = NoOneof}

\* the records write appends for the field
RecordsOf(field) ==
  SelectSeq(WriteRecords(G(Name), Name, self), LAMBDA r : r.tag \div 8 = field.Number)

\* the bytes size_of counts for the field
SizeCounted(field) ==
  LET gm == FindMessage(G(Name), Name) IN
  EvalSizeLine(G(Name), gm,
               First(gm.size.lines, LAMBDA l : l.field = MemberOf(Desc, field)), self)

\* the n elements of an unpacked repeated field are written as n records in
\* element order, each the tag with the kind's wire type and one encoded element
UnpackedRecords(field) ==
  LET x == self[MemberOf(Desc, field)]
      recs == RecordsOf(field)
  IN /\ Len(recs) = Len(x)
     /\ \A e \in 1..Len(x) :
          recs[e].bytes = encode_varint(EncodeTag(field.Number, WireTypeOf(field.Kind)))
                           \o ElementEncoding(G(Name), field, x[e])

\* C13: an unpacked repeated field with n elements is written as n records in
\* element order, each the tag (wire type of the element kind) and one element
\* encoding, and size_of counts exactly those bytes
C13_UnpackedRecordsAndSize ==
  written =>
    \A i \in UnpackedFields :
      /\ UnpackedRecords(Desc.Fields[i])
      /\ SizeCounted(Desc.Fields[i]) = Len(Bytes(RecordsOf(Desc.Fields[i])))

\* every field kind but group
FieldKinds ==
  {"bool", "int32", "int64", "uint32", "uint64", "sint32", "sint64", "enum",
   "fixed64", "sfixed64", "double", "string", "bytes", "message",
   "fixed32", "sfixed32", "float"}

\* field numbers at the varint size boundaries of the tag; the largest is the
\* last whose tag fits 32-bit signed arithmetic
TagNumbers == {1, 15, 16, 2047, 2048, 262143, 262144, 2^28 - 1}

RECURSIVE BitOr(_, _)
BitOr(a, b) ==
  IF a = 0 THEN b
  ELSE IF b = 0 THEN a
  ELSE (IF a % 2 = 1 \/ b % 2 = 1 THEN 1 ELSE 0) + 2 * BitOr(a \div 2, b \div 2)

ShiftLeft(n, k) == n * 2^k

\* (n << 3) | w, w the kind's wire type, or 2 when the field is packed
ExpectedTag(kind, n, isPacked) ==
  BitOr(ShiftLeft(n, 3), IF isPacked THEN 2 ELSE WireTypeOf(kind))

\* the tags embedded in the generated write of the message are the expected ones
TagsOfMessage(gm) ==
  LET m == MessageDescs[CHOOSE id \in DOMAIN MessageDescs : MessageDescs[id].GoName = gm.name]
      regular == SelectSeq(m.Fields, LAMBDA f : f.Oneof = NoOneof)
  IN \A k \in 1..Len(regular) :
       gm.write.lines[k].tag
         = ExpectedTag(regular[k].Kind, regular[k].Number, regular[k].IsPacked)

\* C14: the tag constant embedded for a field of number n is (n << 3) | w, w
\* being the wire type of the field's kind for a non-packed field and 2 for a
\* packed one; stated of the generated files as main leaves them, which no
\* later step changes
C14_TagConstant ==
  (status = "idle" /\ target = "") =>
    /\ \A kind \in FieldKinds : \A n \in TagNumbers :
         /\ tag(kind, n, FALSE) = ExpectedTag(kind, n, FALSE)
         /\ tag(kind, n, TRUE) = ExpectedTag(kind, n, TRUE)
    /\ \A i \in 1..Len(generated) : \A j \in 1..Len(generated[i].messages) :
         TagsOfMessage(generated[i].messages[j])

\* a generated write holds a packed and an unpacked repeated field
C14_Witness ==
  /\ status = "idle"
  /\ target = ""
  /\ \E i \in 1..Len(generated) : \E j \in 1..Len(generated[i].messages) :
       LET lines == generated[i].messages[j].write.lines IN
       /\ \E k \in 1..Len(lines) : lines[k].op = "write_packed" /\ lines[k].tag % 8 = 2
       /\ \E k \in 1..Len(lines) : lines[k].op = "write_list"

\* the value's only set field is the int32 field of number 1, set to 300
OnlyFieldOneIs300 ==
  \E i \in 1..Len(Desc.Fields) :
    /\ Desc.Fields[i].Number = 1
    /\ Desc.Fields[i].Kind = "int32"
    /\ Desc.Fields[i].Cardinality = "optional"
    /\ Desc.Fields[i].Oneof = NoOneof
    /\ self[MemberOf(Desc, Desc.Fields[i])] = 300
    /\ \A j \in 1..Len(Desc.Fields) : j # i => IsUnset(Desc, Desc.Fields[j], self)

\* C15: a message whose only set field is the int32 field 1 with value 300 is
\* written as the bytes 08 AC 02 and its size is 3
C15_Int32Scenario ==
  (size # -1 /\ written /\ OnlyFieldOneIs300) => writer = <<8, 172, 2>> /\ size = 3

\* the buffer read by the generated loop is well-formed records of declared
\* fields followed by one record that is cut short
EndsTruncated ==
  /\ reader.source = "wire"
  /\ ~FindMessage(G(Name), Name).read.empty
  /\ reader.inj = Len(reader.recs)
  /\ reader.inj # 0
  /\ reader.recs[reader.inj].class = "truncated"
  /\ Classes(Without(reader.recs, reader.inj)) \subseteq {"canon"}

\* C16: when a tag, value, packed block, nested message, map entry or skipped
\* field cannot be read, read ends with the error and returns no message
C16_FailedReadAborts ==
  (Finished /\ target # "" /\ EndsTruncated) => status = "error"

\* read failed on a cut record after it had stored fields of earlier records
C16_Witness ==
  /\ status = "error"
  /\ target # ""
  /\ EndsTruncated
  /\ msg # DefaultMessage(G(Name), Name)

RECURSIVE Str(_)
\* an identifier as one string
Str(name) == IF Len(name) = 0 THEN "" ELSE Head(name) \o Str(Tail(name))

\* the fully-qualified paths of the constructs of the file that are not
\* supported: group fields, extension fields, custom options
Unsupported(f) ==
  LET file == FileDescs[f]
      ids == allMessages(file.Messages)
  IN {file.Extensions[i] : i \in 1..Len(file.Extensions)}
     \cup {file.Options[i] : i \in 1..Len(file.Options)}
     \cup UNION {{file.GeneratedFilenamePrefix \o "." \o Str(MessageDescs[ids[i]].GoName)
                    \o "." \o Str(PascalToSnake(MessageDescs[ids[i]].Fields[k].JSONName)) :
                    k \in {k \in 1..Len(MessageDescs[ids[i]].Fields) :
                             MessageDescs[ids[i]].Fields[k].Kind = "group"}} :
                 i \in 1..Len(ids)}

\* generation of the file ended in an error that names the path, and no text
\* was generated for the file
ReportedAt(f, path) ==
  /\ \E k \in 1..Len(failure) : failure[k] = path
  /\ \A j \in 1..Len(generated) :
       generated[j].filename # FileDescs[f].GeneratedFilenamePrefix \o "_pb.mbt"

\* C17: generating a file that holds a group field, an extension or a custom
\* option ends in an error naming the construct's fully-qualified path, and no
\* text is generated for the file
C17_UnsupportedReported ==
  status # "start" =>
    \A i \in 1..Len(request) :
      FileDescs[request[i]].Generate =>
        \A path \in Unsupported(request[i]) : ReportedAt(request[i], path)

\* numbers handed to from_enum: declared ones and undeclared ones of either
\* sign, the largest 32-bit one included
EnumNumbers == {-1, 0, 1, 2, 3, 9, 2147483647}

EnumDescOf(ge) ==
  EnumDescs[CHOOSE id \in DOMAIN EnumDescs : EnumDescs[id].GoName = ge.name]

Declared(enum, n) == \E i \in 1..Len(enum.Values) : enum.Values[i].Number = n

\* default() is the first declared value, and from_enum of an undeclared number
\* is default(), which to_enum takes to the first value's number
EnumFallback(ge) ==
  LET enum == EnumDescOf(ge) IN
  /\ ge.default = enum.Values[1].GoName
  /\ \A n \in EnumNumbers :
       ~Declared(enum, n) =>
         /\ from_enum(ge, n) = ge.default
         /\ to_enum(ge, from_enum(ge, n)) = enum.Values[1].Number

\* the singular enum fields of the target whose last record in the buffer read
\* carries an undeclared number
ReadUndeclared ==
  {i \in 1..Len(Desc.Fields) :
     /\ Desc.Fields[i].Kind = "enum"
     /\ Desc.Fields[i].Cardinality = "optional"
     /\ Desc.Fields[i].Oneof = NoOneof
     /\ LET recs == SelectSeq(reader.recs, LAMBDA r : r.number = Desc.Fields[i].Number)
        IN /\ Len(recs) > 0
           /\ ~Declared(EnumDescs[Desc.Fields[i].Enum],
                        read_varint(recs[Len(recs)].payload, 1).v)}

\* C18: a generated enum's default() is its first declared value; from_enum of
\* a number the enum does not declare returns default(), never fails and keeps
\* no number, so to_enum of the result is the first value's number; a field
\* read from such a number holds default()
C18_EnumFallback ==
  /\ \A i \in 1..Len(generated) : \A j \in 1..Len(generated[i].enums) :
       EnumFallback(generated[i].enums[j])
  /\ (status = "done" /\ target # "" /\ reader.source = "wire"
        /\ Classes(reader.recs) \subseteq {"canon"})
       => \A i \in ReadUndeclared :
            msg[MemberOf(Desc, Desc.Fields[i])]
              = FindEnum(G(Name), EnumDescs[Desc.Fields[i].Enum].GoName).default

\* a field that held a declared value is read again from an undeclared number
C18_Witness ==
  /\ status = "done"
  /\ target # ""
  /\ reader.source = "wire"
  /\ Classes(reader.recs) \subseteq {"canon"}
  /\ Len(reader.recs) = 2
  /\ reader.recs[1].number = reader.recs[2].number
  /\ reader.recs[1].payload = encode_varint(1)
  /\ ReadUndeclared # {}

ScalarKinds == FieldKinds \ {"message", "enum"}

\* the mapping table of doc/spec.md, Basic Types
TableType(kind) ==
  CASE kind = "double" -> "Double"
    [] kind = "float" -> "Float"
    [] kind \in {"int32", "sint32"} -> "Int"
    [] kind \in {"int64", "sint64"} -> "Int64"
    [] kind \in {"uint32", "fixed32", "sfixed32"} -> "UInt"
    [] kind \in {"uint64", "fixed64", "sfixed64"} -> "UInt64"
    [] kind = "bool" -> "Bool"
    [] kind = "string" -> "String"
    [] OTHER -> "Bytes"

\* the table with the signed fixed kinds given the signed types
SignedFixedTable(kind) ==
  CASE kind = "sfixed32" -> "Int"
    [] kind = "sfixed64" -> "Int64"
    [] OTHER -> TableType(kind)

\* the type of a field of scalar kind, or of a map of scalars, under a table
Mapped(Table(_), field) ==
  IF field.IsMap
  THEN Ty("Map", <<>>, << Ty(Table(MessageDescs[field.Message].Fields[1].Kind), <<>>, <<>>),
                          Ty(Table(MessageDescs[field.Message].Fields[2].Kind), <<>>, <<>>) >>)
  ELSE IF field.Cardinality = "repeated"
       THEN Ty("Array", <<>>, << Ty(Table(field.Kind), <<>>, <<>>) >>)
       ELSE Ty(Table(field.Kind), <<>>, <<>>)

IsScalarField(field) ==
  IF field.IsMap
  THEN /\ MessageDescs[field.Message].Fields[1].Kind \in ScalarKinds
       /\ MessageDescs[field.Message].Fields[2].Kind \in ScalarKinds
  ELSE field.Kind \in ScalarKinds

\* the member the generated struct gm has for the field
MemberFor(gm, field) ==
  First(gm.struct, LAMBDA mem : mem.name = PascalToSnake(field.JSONName))

\* every scalar kind, singular and repeated, and every scalar field and map of
\* scalars of the generated structs has the type the table gives
TypesFollow(Table(_)) ==
  /\ \A kind \in ScalarKinds :
       /\ getFieldMbtType(Field(<<"f">>, <<"F">>, 1, kind, "optional", FALSE, NoOneof, ""))
            = Ty(Table(kind), <<>>, <<>>)
       /\ getFieldMbtType(Field(<<"f">>, <<"F">>, 1, kind, "repeated", FALSE, NoOneof, ""))
            = Ty("Array", <<>>, << Ty(Table(kind), <<>>, <<>>) >>)
  /\ \A i \in 1..Len(generated) : \A j \in 1..Len(generated[i].messages) :
       LET gm == generated[i].messages[j]
           m == MessageDescs[CHOOSE id \in DOMAIN MessageDescs :
                               MessageDescs[id].GoName = gm.name]
       IN \A k \in 1..Len(m.Fields) :
            (IsScalarField(m.Fields[k]) /\ m.Fields[k].Oneof = NoOneof)
              => MemberFor(gm, m.Fields[k]).type = Mapped(Table, m.Fields[k])

MembersNamed(gm, name) == {k \in 1..Len(gm.struct) : gm.struct[k].name = name}

\* the struct generated for m: one member per field outside a oneof, one
\* Option member per proto3 optional field, one member per oneof, no others
StructMembers(gm, m) ==
  LET direct == {i \in 1..Len(m.Fields) : ~InRealOneof(m, m.Fields[i])}
      grouped == {i \in 1..Len(m.Fields) : InRealOneof(m, m.Fields[i])}
      real == {o \in 1..Len(m.Oneofs) : ~m.Oneofs[o].IsSynthetic}
      synthetic == {o \in 1..Len(m.Oneofs) : m.Oneofs[o].IsSynthetic}
  IN /\ Len(gm.struct) = Cardinality(direct) + Cardinality(real)
     /\ \A i \in direct :
          LET mems == MembersNamed(gm, PascalToSnake(m.Fields[i].JSONName)) IN
          /\ Cardinality(mems) = 1
          /\ \A k \in mems :
               (gm.struct[k].type.c = "Option") <=> InSyntheticOneof(m, m.Fields[i])
     /\ \A o \in real :
          LET mems == MembersNamed(gm, PascalToSnake(m.Oneofs[o].GoName)) IN
          /\ Cardinality(mems) = 1
          /\ \A k \in mems : gm.struct[k].type = Ty("Named", oneOfEnumName(m, m.Oneofs[o]), <<>>)
     /\ \A i \in grouped : MembersNamed(gm, PascalToSnake(m.Fields[i].JSONName)) = {}
     /\ \A o \in synthetic : MembersNamed(gm, PascalToSnake(m.Oneofs[o].GoName)) = {}

\* C20: the generated struct of every message has exactly one member per field
\* that is in no non-synthetic oneof (an Option when the field is a proto3
\* optional), one member per non-synthetic oneof, and none for a member field
\* of a oneof or for a synthetic oneof
C20_StructMembers ==
  \A i \in 1..Len(generated) : \A j \in 1..Len(generated[i].messages) :
    StructMembers(generated[i].messages[j],
                  MessageDescs[CHOOSE id \in DOMAIN MessageDescs :
                                 MessageDescs[id].GoName = generated[i].messages[j].name])

\* a struct was generated for a message with a oneof of two members, a proto3
\* optional field and a plain field
C20_Witness ==
  \E i \in 1..Len(generated) : \E j \in 1..Len(generated[i].messages) :
    LET gm == generated[i].messages[j] IN
    /\ gm.name = MessageDescs["MOne"].GoName
    /\ Len(gm.struct) = 3
    /\ \E k \in 1..3 : gm.struct[k].type.c = "Option"
    /\ \E k \in 1..3 : gm.struct[k].name = <<"k","i","n","d">>

\* the descriptor of the generated message gm
DescOf(gm) ==
  MessageDescs[CHOOSE id \in DOMAIN MessageDescs : MessageDescs[id].GoName = gm.name]

\* the union generated for the oneof: one variant per member field carrying
\* the member's type, one NotSet variant without payload, default() NotSet
UnionOf(gm, m, oneof) ==
  LET found == {k \in 1..Len(gm.oneofEnums) :
                  gm.oneofEnums[k].name = oneOfEnumName(m, oneof)}
  IN /\ Cardinality(found) = 1
     /\ \A k \in found :
          LET e == gm.oneofEnums[k]
              bare == {v \in 1..Len(e.variants) : DOMAIN e.variants[v] = {"ctor"}}
          IN /\ Len(e.variants) = Len(oneof.Fields) + 1
             /\ \A f \in 1..Len(oneof.Fields) :
                  LET field == m.Fields[oneof.Fields[f]]
                      vs == {v \in 1..Len(e.variants) : e.variants[v].ctor = field.GoName}
                  IN /\ Cardinality(vs) = 1
                     /\ \A v \in vs :
                          /\ "type" \in DOMAIN e.variants[v]
                          /\ e.variants[v].type =
                               (IF IsScalarField(field) THEN Mapped(SignedFixedTable, field)
                                ELSE getFieldMbtType(field))
             /\ Cardinality(bare) = 1
             /\ \A v \in bare : e.variants[v].ctor = NotSet
             /\ e.default = NotSet

\* the non-synthetic oneofs of the target none of whose member fields has a
\* record in the buffer read
AbsentOneofs ==
  {o \in 1..Len(Desc.Oneofs) :
     /\ ~Desc.Oneofs[o].IsSynthetic
     /\ \A r \in 1..Len(reader.recs) : \A f \in 1..Len(Desc.Oneofs[o].Fields) :
          reader.recs[r].number # Desc.Fields[Desc.Oneofs[o].Fields[f]].Number}

DeclaredAt(m, number) == CHOOSE i \in 1..Len(m.Fields) : m.Fields[i].Number = number

\* C22: the records of a message's fields are written in the order in which
\* the fields are declared, a field in a oneof or a proto3 optional field
\* included
C22_DeclarationOrder ==
  written =>
    LET recs == WriteRecords(G(Name), Name, self) IN
    \A a, b \in 1..Len(recs) :
      a < b => DeclaredAt(Desc, recs[a].tag \div 8) <= DeclaredAt(Desc, recs[b].tag \div 8)

\* the output of run a of main for the file, <<>> when it has none
OutputFor(a, f) ==
  SelectSeq(history[a].outputs,
            LAMBDA out : out.filename = FileDescs[f].GeneratedFilenamePrefix \o "_pb.mbt")

OutputsNamed(f) ==
  {j \in 1..Len(generated) :
     generated[j].filename = FileDescs[f].GeneratedFilenamePrefix \o "_pb.mbt"}

\* C24: a run of main that completes yields exactly one output, named
\* <prefix>_pb.mbt, for every file of the request flagged for generation, and
\* none for the other files of the request
C24_OneOutputPerFlaggedFile ==
  status = "idle" =>
    /\ \A i \in 1..Len(request) :
         Cardinality(OutputsNamed(request[i]))
           = (IF FileDescs[request[i]].Generate THEN 1 ELSE 0)
    /\ Len(generated)
         = Cardinality({i \in 1..Len(request) : FileDescs[request[i]].Generate})

\* a request of an imported file and a file to generate has run
C24_Witness ==
  /\ status = "idle"
  /\ request = <<"dep", "nest">>
  /\ Len(generated) = 1
  /\ generated[1].filename = "nest_pb.mbt"

PackableKinds ==
  {"bool", "int32", "int64", "uint32", "uint64", "sint32", "sint64", "enum",
   "fixed32", "fixed64", "sfixed32", "sfixed64", "float", "double"}

\* the packed repeated fields of packable kind of the messages of the file
PackedFields(f) ==
  LET ids == allMessages(FileDescs[f].Messages) IN
  UNION {{<<ids[i], k>> :
            k \in {k \in 1..Len(MessageDescs[ids[i]].Fields) :
                     /\ MessageDescs[ids[i]].Fields[k].IsPacked
                     /\ MessageDescs[ids[i]].Fields[k].Kind \in PackableKinds}} :
         i \in 1..Len(ids)}

\* the generated message has a decode arm, an encode statement and a size
\* term for the field
HasBranches(gm, field) ==
  /\ \E a \in 1..Len(gm.read.arms) : gm.read.arms[a].number = field.Number
  /\ \E l \in 1..Len(gm.write.lines) :
       gm.write.lines[l].op = "write_packed" /\ gm.write.lines[l].tag \div 8 = field.Number
  /\ \E l \in 1..Len(gm.size.lines) :
       gm.size.lines[l].op \in {"size_packed_fixed", "size_packed_varint"}
       /\ gm.size.lines[l].field = PascalToSnake(field.JSONName)

\* C25: for a packed repeated field of any packable kind, enum included,
\* generation completes and produces a decode branch, an encode branch and a
\* size term for the field
C25_PackedGenerated ==
  status # "start" =>
    \A i \in 1..Len(request) : \A p \in PackedFields(request[i]) :
      /\ failure = <<>>
      /\ \E j \in 1..Len(generated) :
           /\ IsMessage(generated[j], MessageDescs[p[1]].GoName)
           /\ HasBranches(FindMessage(generated[j], MessageDescs[p[1]].GoName),
                          MessageDescs[p[1]].Fields[p[2]])

\* a step of a running read: the cursor moves forward by at least one byte,
\* or read fails, or read returns at the end of the input
CursorStep ==
  status = "reading" =>
    \/ status' = "error"
    \/ status' = "done" /\ reader' = reader /\ is_eof(reader.buf, reader.pos)
    \/ /\ status' = "reading"
       /\ reader'.buf = reader.buf
       /\ reader'.pos > reader.pos
       /\ reader'.pos <= Len(reader.buf) + 1

RECURSIVE EndsWithin(_, _, _, _, _, _)
\* the loop started at pos returns or fails after at most left iterations,
\* each of which moves the cursor forward
EndsWithin(g, gm, m, buf, pos, left) ==
  IF is_eof(buf, pos) THEN TRUE
  ELSE IF left = 0 THEN FALSE
  ELSE LET r == ReadStep(g, gm, m, buf, pos) IN
       IF ~r.ok THEN TRUE
       ELSE r.pos > pos /\ EndsWithin(g, gm, r.v, buf, r.pos, left - 1)

\* a running read ends within as many iterations as bytes are left to read
Terminates ==
  status = "reading" =>
    /\ reader.pos <= Len(reader.buf) + 1
    /\ EndsWithin(G(Name), FindMessage(G(Name), Name), msg, reader.buf,
                  reader.pos, Len(reader.buf) + 1 - reader.pos)

\* C26: in one call of read the cursor never moves backwards, every iteration
\* of the loop moves it forward by at least one byte or ends the call with an
\* error, and so the call ends after at most as many iterations as the
\* buffer has bytes
C26_CursorAdvances ==
  /\ [][CursorStep]_vars
  /\ []Terminates

\* the loop is in its third iteration
C26_Witness ==
  /\ status = "reading"
  /\ reader.source = "wire"
  /\ Len(reader.recs) = 3
  /\ reader.pos = 1 + Len(Render(reader.recs[1])) + Len(Render(reader.recs[2]))

\* the messages the fields of id are typed with
Refs(id) ==
  {MessageDescs[id].Fields[i].Message :
     i \in {j \in 1..Len(MessageDescs[id].Fields) :
              MessageDescs[id].Fields[j].Kind = "message"}}

RECURSIVE ReachIn(_, _)
ReachIn(ids, n) ==
  IF n = 0 THEN ids ELSE ReachIn(ids \cup UNION {Refs(id) : id \in ids}, n - 1)

\* id references itself or an ancestor through message-typed fields
Recursive(id) == id \in ReachIn(Refs(id), Cardinality(DOMAIN MessageDescs))

\* C27: the default value of a generated message that references itself,
\* directly, through a oneof member or through another message, is finite,
\* and a read of it, which starts from the default value, gets past building it
C27_RecursiveDefaultFinite ==
  /\ \A i \in 1..Len(generated) : \A id \in DOMAIN MessageDescs :
       (Recursive(id) /\ IsMessage(generated[i], MessageDescs[id].GoName))
         => ~DefaultDiverges(generated[i], MessageDescs[id].GoName)
  /\ (target # "" /\ Recursive(target)) => status # "diverged"

\* C28: every member the generated size, read and write procedures of a
\* message access on the message value is a member of its generated struct,
\* and every local variable they name is bound where it is named
C28_NamesDeclared ==
  \A i \in 1..Len(generated) : \A j \in 1..Len(generated[i].messages) :
    LET gm == generated[i].messages[j] IN
    /\ Accessed(gm) \subseteq MemberNames(gm)
    /\ Unbound(gm) = {}

\* the fields of the target typed with a message, maps aside
MessageFields ==
  {f \in {Desc.Fields[i] : i \in 1..Len(Desc.Fields)} : f.Kind = "message" /\ ~f.IsMap}

\* the records of the buffer that hold a message of a field of the target,
\* each with the generated name of that message
HeldMessages ==
  UNION {{<<MessageDescs[f.Message].GoName, reader.recs[i].payload>> :
            i \in {j \in 1..Len(reader.recs) :
                     /\ reader.recs[j].number = f.Number
                     /\ reader.recs[j].wire = BytesType
                     /\ reader.recs[j].class = "canon"}} :
         f \in MessageFields}

\* C29: when read returns a message, the cursor is at the end of the input of
\* that call, for the call made on the buffer and for the calls made on the
\* bytes of the messages held in it, a message without fields included
C29_ReadConsumesInput ==
  (status = "done" /\ reader.source = "wire") =>
    /\ reader.pos = Len(reader.buf) + 1
    /\ \A h \in HeldMessages :
         LET sub == ReadMessage(G(Name), h[1], h[2]) IN
         sub.ok => sub.pos = Len(h[2]) + 1

\* C30: for every generated enum and every constant e of it, from_enum of
\* to_enum of e is e, also when two constants share one number
C30_EnumRoundTrip ==
  \A i \in 1..Len(generated) : \A j \in 1..Len(generated[i].enums) :
    LET ge == generated[i].enums[j] IN
    \A k \in 1..Len(ge.variants) :
      from_enum(ge, to_enum(ge, ge.variants[k])) = ge.variants[k]

====
